---- MODULE Spec2Model ----
(***************************************************************************)
(* Model of the stack validator of tag-validator                           *)
(* (src/src/workers/validator.ts): validateTokens consumes a positioned    *)
(* token list, keeps a stack of open elements and an error accumulator,    *)
(* and returns the deduplicated, position-sorted error list.               *)
(***************************************************************************)
EXTENDS Integers, Sequences, FiniteSets, TLC

\* ------------------------------------------------------------------ bounds
MaxTokens == 4
MaxCap == 1
MaxCallTokens == 2
MaxCalls == 3

\* ------------------------------------------------------- program constants
\* maxErrors = 500 when the caller passes none (validator.ts:70)
DefaultMaxErrors == 500

\* VOID_ELEMENTS (parser.ts:5-10)
VOID_ELEMENTS ==
    {"area", "base", "br", "col", "embed", "hr", "img", "input",
     "link", "meta", "param", "source", "track", "wbr",
     "command", "keygen", "menuitem"}

\* ------------------------------------------------------------ input domain
\* Tag names of the checked documents: two ordinary names and one void name.
Names == {"div", "span", "br"}
Lines == {1, 2}
TokenTypes == {"OPEN", "CLOSE"}

\* Values of the optional fields of ValidationError when they are unset.
NoTag == ""
NoLine == 0

\* TagToken (types/index.ts:3-10); tokens[k] sits on line lines[k], and its
\* column is its rank among the tokens of that line (source order).
ColumnOf(lines, k) == 1 + Cardinality({j \in 1..(k - 1) : lines[j] = lines[k]})

MkTokens(kinds, lines) ==
    [k \in DOMAIN kinds |->
        [type |-> kinds[k][1], name |-> kinds[k][2],
         line |-> lines[k], column |-> ColumnOf(lines, k)]]

\* Token lists in source order of at most n tokens.
TokenLists(n) ==
    UNION {
        { MkTokens(kinds, lines) :
            kinds \in [1..len -> TokenTypes \X Names],
            lines \in { l \in [1..len -> Lines] :
                          \A j \in 1..len, k \in 1..len : j < k => l[j] <= l[k] } }
        : len \in 0..n }

\* The maxErrors option: a small cap, or the default.
CapChoices == (0..MaxCap) \cup {DefaultMaxErrors}

\* ------------------------------------------------------------------- state
VARIABLES
    tokens,          \* the tokens argument of the running call
    maxErrors,       \* options.maxErrors of the running call
    i,               \* loop index: number of tokens consumed
    stack,           \* StackEntry[]; the top is the last element
    errors,          \* ValidationError[] accumulated so far
    result,          \* the returned list (once pc = "done")
    pc,              \* "loop" | "done"
    errorIdCounter,  \* module-level _errorIdCounter
    trace,           \* history: stack and error count seen at the top of
                     \* every loop iteration, and at loop exit
    calls,           \* number of validateTokens calls started
    memo,            \* history: input and result of the first completed call
    progressCalls,   \* history: the onProgress(processed, total) calls made
    \* parseContent (parser.ts)
    content,              \* the text given to parseContent and, as options.content,
                          \* to validateTokens (validator.worker.ts)
    doc,                  \* history: the items the text consists of
    pos,                  \* tokenizer: number of items consumed
    tkRawText,            \* tokenizer: the raw-text element whose body it is in, or ""
    ptokens,              \* tokens: TagToken[]
    emittedCloseOffsets,  \* offsets of the CLOSE tokens the handlers emitted
    excludedRanges,       \* [start, end] ranges, both ends inclusive
    rawTextStart,         \* where the open raw-text body starts, or -1
    ppc,                  \* "idle" | "parse" | "scan" | "done"
    \* the worker (validator.worker.ts)
    sent,                 \* history: the messages the host has posted, in order
    taken,                \* number of them the worker has started to handle
    outbox,               \* the messages the worker has posted, in order
    cancelled,            \* module-level flag
    wpc,                  \* position in onmessage: "idle" | "parse" | "validate"
    callbacksLeft,        \* progress callbacks validateTokens has yet to make
    accumulated,          \* number of errors the running validateTokens holds
    expired,              \* Date.now() - startTime > TIMEOUT_MS
    sentDuring,           \* history: the CANCEL messages posted while a handler ran
    \* the editor panel (EditorPanel, src/unnamed/part_003)
    editorContent,        \* store.content
    timers,               \* the timeouts set and neither fired nor cleared
    validateTimeout,      \* validateTimeout.current: a timer id, or 0 for null
    timerIds,             \* number of timeouts set so far
    validateCalls,        \* history: the onValidate calls made
    quiet,                \* history: time since the last content change
    changes,              \* history: number of content changes
    \* calls of the helper functions
    lookup,               \* history: the last call made and what it returned
    \* the host: useWorker (src/unnamed/part_005) and the store (useAppStore.ts)
    isValidating,         \* store.isValidating
    storeErrors,          \* store.errors, the list reduced to its length
    delivered             \* number of the worker's messages the host has handled

validatorVars == <<tokens, maxErrors, i, stack, errors, result, pc,
                   errorIdCounter, trace, calls, memo, progressCalls>>

parserVars == <<content, doc, pos, tkRawText, ptokens, emittedCloseOffsets,
                excludedRanges, rawTextStart, ppc>>

workerVars == <<sent, taken, outbox, cancelled, wpc, callbacksLeft,
                accumulated, expired, sentDuring>>

editorVars == <<editorContent, timers, validateTimeout, timerIds,
                validateCalls, quiet, changes>>

lookupVars == <<lookup>>

hostVars == <<isValidating, storeErrors, delivered>>

vars == <<validatorVars, parserVars, workerVars, editorVars, lookupVars, hostVars>>

\* The store as created (useAppStore.ts:37-38), no message received
HostIdle ==
    /\ isValidating = FALSE
    /\ storeErrors = 0
    /\ delivered = 0

\* No helper function has been called
LookupIdle == lookup = <<>>

\* The editor panel after mount: no content, no timeout
EditorIdle ==
    /\ editorContent = ""
    /\ timers = {}
    /\ validateTimeout = 0
    /\ timerIds = 0
    /\ validateCalls = <<>>
    /\ quiet = 0
    /\ changes = 0

\* The worker after module load (line 6), no message posted to it
WorkerIdle ==
    /\ sent = <<>>
    /\ taken = 0
    /\ outbox = <<>>
    /\ cancelled = FALSE
    /\ wpc = "idle"
    /\ callbacksLeft = 0
    /\ accumulated = 0
    /\ expired = FALSE
    /\ sentDuring = {}

\* parseContent is not running
ParserIdle ==
    /\ content = <<>>
    /\ doc = <<>>
    /\ pos = 0
    /\ tkRawText = ""
    /\ ptokens = <<>>
    /\ emittedCloseOffsets = {}
    /\ excludedRanges = <<>>
    /\ rawTextStart = -1
    /\ ppc = "idle"

\* ------------------------------------------------------------- validator.ts
\* Mutant of GenId: the counter is not incremented.
GenIdStuck(counter) == counter

\* genId (lines 4-7): pre-increments the counter; the id is the text
\* err-<new value>-<Date.now()>, told apart from every other id by the
\* counter part, which is what the model keeps of it.
GenId(counter) == counter + 1

IsVoid(name) == name \in VOID_ELEMENTS

\* A ValidationError (types/index.ts:22-35) without its derived text fields.
MkError(id, type, line, column, tag, expected, relatedLine, relatedTag) ==
    [id |-> id, type |-> type, severity |-> "error", line |-> line,
     column |-> column, tag |-> tag, expected |-> expected,
     relatedLine |-> relatedLine, relatedTag |-> relatedTag]

Top(s) == s[Len(s)]
Pop(s) == SubSeq(s, 1, Len(s) - 1)

\* The frame of one call: its stack, its errors, and the id counter.
Frame(s, e, c) == [stack |-> s, errors |-> e, counter |-> c]

\* Mutant of PushMissingOpen: the column field is fed the line.
PushMissingOpenLineAsColumn(f, token) ==
    Frame(f.stack,
          Append(f.errors,
                 MkError(GenId(f.counter), "MISSING_OPEN", token.line,
                         token.line, token.name, NoTag, NoLine, NoTag)),
          GenId(f.counter))

\* errors.push of a MISSING_OPEN (lines 95-105)
PushMissingOpen(f, token) ==
    Frame(f.stack,
          Append(f.errors,
                 MkError(GenId(f.counter), "MISSING_OPEN", token.line,
                         token.column, token.name, NoTag, NoLine, NoTag)),
          GenId(f.counter))

\* Mutant of PushMismatch: tag and expected are swapped.
PushMismatchSwapped(f, token) ==
    Frame(f.stack,
          Append(f.errors,
                 MkError(GenId(f.counter), "MISMATCH", token.line,
                         token.column, Top(f.stack).name, token.name,
                         Top(f.stack).line, Top(f.stack).name)),
          GenId(f.counter))

\* Mutant of PushMismatch: relatedLine is the CLOSE token's own line.
PushMismatchRelatedOwnLine(f, token) ==
    Frame(f.stack,
          Append(f.errors,
                 MkError(GenId(f.counter), "MISMATCH", token.line,
                         token.column, token.name, Top(f.stack).name,
                         token.line, Top(f.stack).name)),
          GenId(f.counter))

\* Mutant of PushMismatch: the MISMATCH is pushed twice.
PushMismatchTwice(f, token) ==
    LET once == Frame(f.stack,
                      Append(f.errors,
                             MkError(GenId(f.counter), "MISMATCH", token.line,
                                     token.column, token.name, Top(f.stack).name,
                                     Top(f.stack).line, Top(f.stack).name)),
                      GenId(f.counter))
    IN  Frame(f.stack,
              Append(once.errors,
                     MkError(GenId(once.counter), "MISMATCH", token.line,
                             token.column, token.name, Top(f.stack).name,
                             Top(f.stack).line, Top(f.stack).name)),
              GenId(once.counter))

\* errors.push of a MISMATCH (lines 111-125)
PushMismatch(f, token) ==
    Frame(f.stack,
          Append(f.errors,
                 MkError(GenId(f.counter), "MISMATCH", token.line,
                         token.column, token.name, Top(f.stack).name,
                         Top(f.stack).line, Top(f.stack).name)),
          GenId(f.counter))

\* Mutant of RecoverPop: recovery pops without reporting.
RecoverPopSilent(f, token, cap) == Frame(Pop(f.stack), f.errors, f.counter)

\* Mutant of RecoverPop: recovery reports every popped entry, cap or not.
RecoverPopIgnoreCap(f, token, cap) ==
    Frame(Pop(f.stack),
          Append(f.errors,
                 MkError(GenId(f.counter), "MISSING_CLOSE",
                         Top(f.stack).line, Top(f.stack).column,
                         Top(f.stack).name, NoTag, token.line, NoTag)),
          GenId(f.counter))

\* One pop of the recovery loop (lines 129-143): the popped entry is reported
\* only while the cap allows.
RecoverPop(f, token, cap) ==
    IF Len(f.errors) < cap
    THEN Frame(Pop(f.stack),
               Append(f.errors,
                      MkError(GenId(f.counter), "MISSING_CLOSE",
                              Top(f.stack).line, Top(f.stack).column,
                              Top(f.stack).name, NoTag, token.line, NoTag)),
               GenId(f.counter))
    ELSE Frame(Pop(f.stack), f.errors, f.counter)

\* Mutant of Recover: recovery pops one entry at most.
RecoverOnce(f, token, cap) ==
    IF Len(f.stack) > 0 /\ Top(f.stack).name /= token.name
    THEN RecoverPop(f, token, cap)
    ELSE f

\* Mutant of Recover: recovery does not stop at the matching entry.
RECURSIVE RecoverToBottom(_, _, _)
RecoverToBottom(f, token, cap) ==
    IF Len(f.stack) > 0
    THEN RecoverToBottom(RecoverPop(f, token, cap), token, cap)
    ELSE f

\* The recovery loop (lines 128-144)
RECURSIVE Recover(_, _, _)
Recover(f, token, cap) ==
    IF Len(f.stack) > 0 /\ Top(f.stack).name /= token.name
    THEN Recover(RecoverPop(f, token, cap), token, cap)
    ELSE f

\* Mutant of PopIfMatch: the tag recovery stopped at stays on the stack.
PopIfMatchNever(f, token) == f

\* Pop the matching tag if recovery found it (lines 146-148)
PopIfMatch(f, token) ==
    IF Len(f.stack) > 0 /\ Top(f.stack).name = token.name
    THEN Frame(Pop(f.stack), f.errors, f.counter)
    ELSE f

\* Mutant of OpenStep: void elements are pushed like any other.
OpenStepPushVoid(f, token) ==
    Frame(Append(f.stack,
                 [name |-> token.name, line |-> token.line,
                  column |-> token.column]),
          f.errors, f.counter)

\* The OPEN branch (lines 85-88)
OpenStep(f, token) ==
    IF IsVoid(token.name)
    THEN f
    ELSE Frame(Append(f.stack,
                      [name |-> token.name, line |-> token.line,
                       column |-> token.column]),
               f.errors, f.counter)

\* Mutant of CloseStep: the match test reads the bottom of the stack.
CloseStepMatchBottom(f, token, cap) ==
    IF IsVoid(token.name) THEN f
    ELSE IF Len(f.stack) = 0 THEN PushMissingOpen(f, token)
    ELSE IF f.stack[1].name = token.name
         THEN Frame(Pop(f.stack), f.errors, f.counter)
    ELSE PopIfMatch(Recover(PushMismatch(f, token), token, cap), token)

\* Mutant of CloseStep: a CLOSE token on an empty stack is swallowed.
CloseStepSwallowOrphan(f, token, cap) ==
    IF IsVoid(token.name) \/ Len(f.stack) = 0 THEN f
    ELSE IF Top(f.stack).name = token.name
         THEN Frame(Pop(f.stack), f.errors, f.counter)
    ELSE PopIfMatch(Recover(PushMismatch(f, token), token, cap), token)

\* Mutant of CloseStep: a CLOSE token whose name is nowhere on the stack is
\* swallowed.
CloseStepIgnoreUnknown(f, token, cap) ==
    IF IsVoid(token.name) THEN f
    ELSE IF \A d \in 1..Len(f.stack) : f.stack[d].name /= token.name THEN f
    ELSE IF Top(f.stack).name = token.name
         THEN Frame(Pop(f.stack), f.errors, f.counter)
    ELSE PopIfMatch(Recover(PushMismatch(f, token), token, cap), token)

\* The CLOSE branch (lines 89-150)
CloseStep(f, token, cap) ==
    IF IsVoid(token.name) THEN f
    ELSE IF Len(f.stack) = 0 THEN PushMissingOpen(f, token)
    ELSE IF Top(f.stack).name = token.name
         THEN Frame(Pop(f.stack), f.errors, f.counter)
    ELSE PopIfMatch(Recover(PushMismatch(f, token), token, cap), token)

\* Mutant of DrainStack: the end-of-input loop ignores the cap.
RECURSIVE DrainStackIgnoreCap(_, _)
DrainStackIgnoreCap(f, cap) ==
    IF Len(f.stack) > 0
    THEN DrainStackIgnoreCap(
             Frame(Pop(f.stack),
                   Append(f.errors,
                          MkError(GenId(f.counter), "MISSING_CLOSE",
                                  Top(f.stack).line, Top(f.stack).column,
                                  Top(f.stack).name, NoTag, NoLine, NoTag)),
                   GenId(f.counter)),
             cap)
    ELSE f

\* The end-of-input loop (lines 154-167)
RECURSIVE DrainStack(_, _)
DrainStack(f, cap) ==
    IF Len(f.stack) > 0 /\ Len(f.errors) < cap
    THEN DrainStack(
             Frame(Pop(f.stack),
                   Append(f.errors,
                          MkError(GenId(f.counter), "MISSING_CLOSE",
                                  Top(f.stack).line, Top(f.stack).column,
                                  Top(f.stack).name, NoTag, NoLine, NoTag)),
                   GenId(f.counter)),
             cap)
    ELSE f

\* Mutant of DedupKey: the column is part of the key.
DedupKeyWithColumn(err) == <<err.type, err.tag, err.line, err.column>>

\* The deduplication key (line 172)
DedupKey(err) == <<err.type, err.tag, err.line>>

\* Mutant of Deduplicate: the last error of every key survives.
DeduplicateKeepLast(errs) ==
    LET keep == { k \in 1..Len(errs) :
                    \A j \in (k + 1)..Len(errs) : DedupKey(errs[j]) /= DedupKey(errs[k]) }
        RECURSIVE Build(_)
        Build(k) == IF k = 0 THEN <<>>
                    ELSE IF k \in keep THEN Append(Build(k - 1), errs[k])
                    ELSE Build(k - 1)
    IN  Build(Len(errs))

\* errors.filter with the seen set (lines 170-176): an error survives when no
\* earlier error has its key.
Deduplicate(errs) ==
    LET keep == { k \in 1..Len(errs) :
                    \A j \in 1..(k - 1) : DedupKey(errs[j]) /= DedupKey(errs[k]) }
        RECURSIVE Build(_)
        Build(k) == IF k = 0 THEN <<>>
                    ELSE IF k \in keep THEN Append(Build(k - 1), errs[k])
                    ELSE Build(k - 1)
    IN  Build(Len(errs))

\* Mutant of Compare: the sort is by line only.
CompareLineOnly(a, b) == a.line - b.line

\* The comparator of the final sort (line 179)
Compare(a, b) == IF a.line /= b.line THEN a.line - b.line ELSE a.column - b.column

\* Array.prototype.sort with Compare: a stable sort.
RECURSIVE InsertSorted(_, _)
InsertSorted(sorted, e) ==
    IF sorted = <<>> THEN <<e>>
    ELSE IF Compare(sorted[Len(sorted)], e) <= 0 THEN Append(sorted, e)
    ELSE Append(InsertSorted(Pop(sorted), e), sorted[Len(sorted)])

RECURSIVE SortErrors(_)
SortErrors(errs) ==
    IF errs = <<>> THEN <<>>
    ELSE InsertSorted(SortErrors(Pop(errs)), errs[Len(errs)])

\* One loop iteration on a token (lines 85-150)
StepToken(f, token, cap) ==
    IF token.type = "OPEN" THEN OpenStep(f, token) ELSE CloseStep(f, token, cap)

\* The token loop from token k on, with the cap check of line 77
RECURSIVE RunLoop(_, _, _, _)
RunLoop(f, toks, k, cap) ==
    IF k > Len(toks) \/ Len(f.errors) >= cap THEN f
    ELSE RunLoop(StepToken(f, toks[k], cap), toks, k + 1, cap)

\* ----------------------------------------------------------------- actions
CurFrame == Frame(stack, errors, errorIdCounter)
Snapshot == [stack |-> stack, nerr |-> Len(errors)]

\* Mutant of Enter: the error accumulator is not local to the call.
EnterKeepErrors(toks, cap) ==
    /\ tokens' = toks
    /\ maxErrors' = cap
    /\ i' = 0
    /\ stack' = <<>>
    /\ errors' = errors
    /\ result' = <<>>
    /\ pc' = "loop"
    /\ trace' = <<>>
    /\ progressCalls' = <<>>

\* The locals of a fresh call (lines 70-73)
Enter(toks, cap) ==
    /\ tokens' = toks
    /\ maxErrors' = cap
    /\ i' = 0
    /\ stack' = <<>>
    /\ errors' = <<>>
    /\ result' = <<>>
    /\ pc' = "loop"
    /\ trace' = <<>>
    /\ progressCalls' = <<>>

InitWith(lists) ==
    /\ tokens \in lists
    /\ maxErrors \in CapChoices
    /\ i = 0
    /\ stack = <<>>
    /\ errors = <<>>
    /\ result = <<>>
    /\ pc = "loop"
    /\ errorIdCounter = 0
    /\ trace = <<>>
    /\ calls = 1
    /\ memo = <<>>
    /\ progressCalls = <<>>
    /\ ParserIdle
    /\ WorkerIdle
    /\ EditorIdle
    /\ LookupIdle
    /\ HostIdle

\* validateTokens is not running
ValidatorIdle ==
    /\ tokens = <<>>
    /\ maxErrors = DefaultMaxErrors
    /\ i = 0
    /\ stack = <<>>
    /\ errors = <<>>
    /\ result = <<>>
    /\ pc = "idle"
    /\ errorIdCounter = 0
    /\ trace = <<>>
    /\ calls = 0
    /\ memo = <<>>
    /\ progressCalls = <<>>

Init == InitWith(TokenLists(MaxTokens))

\* The loop continues: more tokens, and the cap not reached (lines 76-77)
InLoop == pc = "loop" /\ i < Len(tokens) /\ Len(errors) < maxErrors

\* Mutant of ProgressInterval: a callback at every token.
ProgressIntervalOne(total) == 1

\* progressInterval (line 74), about 5% of the tokens
ProgressInterval(total) == IF total \div 20 >= 1 THEN total \div 20 ELSE 1

\* The callback of lines 81-83 at the top of the iteration on token
\* processed + 1, made after the cap check of line 77
Reported(processed, total) ==
    IF processed % ProgressInterval(total) = 0
    THEN Append(progressCalls, <<processed, total>>)
    ELSE progressCalls

\* Mutant of Apply: a void-named token is skipped without moving on.
ApplyStuckOnVoid(f) ==
    IF IsVoid(tokens[i + 1].name)
    THEN UNCHANGED vars
    ELSE /\ stack' = f.stack
         /\ errors' = f.errors
         /\ errorIdCounter' = f.counter
         /\ i' = i + 1
         /\ trace' = Append(trace, Snapshot)
         /\ progressCalls' = Reported(i, Len(tokens))
         /\ UNCHANGED <<tokens, maxErrors, result, pc, calls, memo, parserVars, workerVars,
                   editorVars, lookupVars, hostVars>>

\* The end of an iteration: the frame written back, the index advanced
Apply(f) ==
    /\ stack' = f.stack
    /\ errors' = f.errors
    /\ errorIdCounter' = f.counter
    /\ i' = i + 1
    /\ trace' = Append(trace, Snapshot)
    /\ progressCalls' = Reported(i, Len(tokens))
    /\ UNCHANGED <<tokens, maxErrors, result, pc, calls, memo, parserVars, workerVars,
                   editorVars, lookupVars, hostVars>>

\* One iteration on an OPEN token
ProcessOpen ==
    /\ InLoop
    /\ tokens[i + 1].type = "OPEN"
    /\ Apply(OpenStep(CurFrame, tokens[i + 1]))

\* One iteration on a CLOSE token
ProcessClose ==
    /\ InLoop
    /\ tokens[i + 1].type = "CLOSE"
    /\ Apply(CloseStep(CurFrame, tokens[i + 1], maxErrors))

\* Returned without the final sort: the errors in the order they were appended
ReturnedUnsorted(f) == Deduplicate(f.errors)

\* What the call returns from a frame (lines 153-179)
Returned(f) == SortErrors(Deduplicate(f.errors))

\* validateTokens as a function of its arguments and the id counter
ValidateTokens(toks, cap, counter) ==
    Returned(DrainStack(RunLoop(Frame(<<>>, <<>>, counter), toks, 1, cap), cap))

\* Loop exit (end of tokens, or the break of line 77), the end-of-input
\* loop, deduplication, sort and return.
Finish ==
    /\ pc = "loop"
    /\ ~InLoop
    /\ LET f == DrainStack(CurFrame, maxErrors)
       IN  /\ stack' = f.stack
           /\ errors' = f.errors
           /\ errorIdCounter' = f.counter
           /\ result' = Returned(f)
    /\ pc' = "done"
    /\ trace' = Append(trace, Snapshot)
    /\ memo' = IF memo = <<>>
               THEN <<[tokens |-> tokens, maxErrors |-> maxErrors,
                       result |-> result']>>
               ELSE memo
    /\ UNCHANGED <<tokens, maxErrors, i, calls, progressCalls, parserVars, workerVars,
                   editorVars, lookupVars, hostVars>>

Next == ProcessOpen \/ ProcessClose \/ Finish

Spec == Init /\ [][Next]_vars

\* ------------------------------------------- several calls, one after another
\* validateTokens is synchronous: a call starts only when the previous one
\* has returned.  Only _errorIdCounter (line 4) outlives a call.
\* Documents validated between two validations of the first document: the
\* empty one and the one-tag ones.
Interferers ==
    { toks \in TokenLists(1) :
        \A k \in 1..Len(toks) : toks[k].line = 1 /\ ~IsVoid(toks[k].name) }

\* The first document is validated again with the same options.
Revalidate ==
    /\ pc = "done"
    /\ calls < MaxCalls
    /\ Enter(memo[1].tokens, memo[1].maxErrors)
    /\ calls' = calls + 1
    /\ UNCHANGED <<errorIdCounter, memo, parserVars, workerVars,
                   editorVars, lookupVars, hostVars>>

\* Another document is validated.
Interfere ==
    /\ pc = "done"
    /\ calls < MaxCalls
    /\ \E toks \in Interferers : Enter(toks, DefaultMaxErrors)
    /\ calls' = calls + 1
    /\ UNCHANGED <<errorIdCounter, memo, parserVars, workerVars,
                   editorVars, lookupVars, hostVars>>

InitCalls == InitWith(TokenLists(MaxCallTokens))

NextCalls == ProcessOpen \/ ProcessClose \/ Finish \/ Revalidate \/ Interfere

SpecCalls == InitCalls /\ [][NextCalls]_vars

\* ------------------------------------------------- vocabulary of the claims
Done == pc = "done"

\* The tokens a document's structure consists of: those not void-named.
NonVoidTokens(toks) == SelectSeq(toks, LAMBDA t : t.name \notin VOID_ELEMENTS)

AllClose(toks) == \A k \in 1..Len(toks) : toks[k].type = "CLOSE"

\* Well-formed by the grammar  B ::= empty | <n> B </n> B
RECURSIVE Balanced(_)
Balanced(s) ==
    \/ s = <<>>
    \/ /\ s[1].type = "OPEN"
       /\ \E k \in 2..Len(s) :
            /\ s[k].type = "CLOSE"
            /\ s[k].name = s[1].name
            /\ Balanced(SubSeq(s, 2, k - 1))
            /\ Balanced(SubSeq(s, k + 1, Len(s)))

Min(a, b) == IF a <= b THEN a ELSE b

\* a precedes or ties with b in (line, column) order
PosLeq(a, b) == a.line < b.line \/ (a.line = b.line /\ a.column <= b.column)

\* ------------------------------------------------------------------ claims
\* C1: a well-formed token list (non-void OPEN tokens matched by identically
\* named CLOSE tokens in proper nesting, void-named tokens anywhere) yields
\* an empty error list.
C1_WellFormedNoErrors ==
    (Done /\ Balanced(NonVoidTokens(tokens))) => result = <<>>

C1_Witness ==
    /\ Done
    /\ maxErrors = DefaultMaxErrors
    /\ Len(tokens) >= 3
    /\ Len(NonVoidTokens(tokens)) \in 2..(Len(tokens) - 1)
    /\ Balanced(NonVoidTokens(tokens))

\* C2 as stated: a token list of CLOSE tokens only yields as many errors as
\* it has tokens, all of them MISSING_OPEN (read in its most favourable
\* case: no void-named token, and a cap the token count cannot reach).
C2_Original ==
    (/\ Done
     /\ AllClose(tokens)
     /\ NonVoidTokens(tokens) = tokens
     /\ Len(tokens) <= maxErrors) =>
        /\ Len(result) = Len(tokens)
        /\ \A k \in 1..Len(result) : result[k].type = "MISSING_OPEN"

\* C2 amended: a token list of CLOSE tokens only yields MISSING_OPEN errors
\* only, one for every distinct (name, line) among the first
\* min(maxErrors, n) of its n non-void tokens.
C2_OrphansAmended ==
    (Done /\ AllClose(tokens)) =>
        LET nv == NonVoidTokens(tokens)
            m == Min(maxErrors, Len(nv))
        IN  /\ Len(result) =
                 Cardinality({ <<nv[k].name, nv[k].line>> : k \in 1..m })
            /\ \A k \in 1..Len(result) : result[k].type = "MISSING_OPEN"

C2_Witness ==
    /\ Done
    /\ AllClose(tokens)
    /\ Len(tokens) >= 3
    /\ Len(result) >= 2
    /\ Len(result) < Len(tokens)

\* C3: no two errors of the returned list share type, tag and line.
C3_DedupLaw ==
    Done =>
        \A j \in 1..Len(result), k \in 1..Len(result) :
            j < k =>
                <<result[j].type, result[j].tag, result[j].line>>
                    /= <<result[k].type, result[k].tag, result[k].line>>

C3_Witness == Done /\ Len(result) >= 2 /\ Len(result) < Len(errors)

\* C4: the returned list is ordered by line, then by column.
C4_Ordered ==
    Done =>
        \A j \in 1..Len(result), k \in 1..Len(result) :
            j < k => PosLeq(result[j], result[k])

\* a MISSING_CLOSE of an earlier position was emitted after a MISMATCH
C4_Witness ==
    /\ Done
    /\ \E j \in 1..Len(errors), k \in 1..Len(errors) :
         /\ j < k
         /\ errors[j].type = "MISMATCH"
         /\ errors[k].type = "MISSING_CLOSE"
         /\ ~PosLeq(errors[j], errors[k])
         /\ \E a \in 1..Len(result), b \in 1..Len(result) :
              a < b /\ result[a] = errors[k] /\ result[b] = errors[j]

\* An error list with the id field blanked.
StripIds(errs) == [k \in DOMAIN errs |-> [errs[k] EXCEPT !.id = 0]]

\* C5: a call with the tokens and maxErrors of an earlier call returns the
\* same errors in the same order, equal in every field but id, whatever
\* calls ran in between.
C5_HistoryIndependent ==
    (/\ Done
     /\ memo /= <<>>
     /\ tokens = memo[1].tokens
     /\ maxErrors = memo[1].maxErrors) =>
        StripIds(result) = StripIds(memo[1].result)

\* the first document validated a second time after another document's
\* validation issued ids
C5_Witness ==
    /\ Done
    /\ calls = 3
    /\ tokens = memo[1].tokens
    /\ maxErrors = memo[1].maxErrors
    /\ Len(result) >= 2
    /\ result[1].id > memo[1].result[1].id + Len(errors)

\* ------------------------------------------- what each loop iteration did
\* Tokens 1..i have been processed; trace[k] is the stack and the error
\* count token k found, After(k) what it left.  The errors only grow, so
\* the record of a returned call (Done) shows every iteration's effect.
Before(k) == trace[k]
After(k) == IF k < Len(trace) THEN trace[k + 1] ELSE Snapshot

\* The errors token k appended
Emitted(k) == SubSeq(errors, Before(k).nerr + 1, After(k).nerr)

CloseNonVoid(t) == t.type = "CLOSE" /\ t.name \notin VOID_ELEMENTS

\* Token k is a non-void CLOSE that found an empty stack
OrphanAt(k) == CloseNonVoid(tokens[k]) /\ Before(k).stack = <<>>

\* Token k is a non-void CLOSE that found another name on top of the stack
MismatchAt(k) ==
    /\ CloseNonVoid(tokens[k])
    /\ Before(k).stack /= <<>>
    /\ Top(Before(k).stack).name /= tokens[k].name

\* Token k is a CLOSE that found its own name on top of the stack
MatchAt(k) ==
    /\ tokens[k].type = "CLOSE"
    /\ Before(k).stack /= <<>>
    /\ Top(Before(k).stack).name = tokens[k].name

OpenDeeper(name, s) == \E d \in 1..(Len(s) - 1) : s[d].name = name

\* C6: every processed non-void CLOSE token whose name is not on top of the
\* stack has, in the returned list, an error with its name and line:
\* MISSING_OPEN when it found the stack empty, MISMATCH otherwise.
C6_UnmatchedCloseSurfaces ==
    Done =>
        \A k \in 1..i :
            (OrphanAt(k) \/ MismatchAt(k)) =>
                \E r \in 1..Len(result) :
                    /\ result[r].tag = tokens[k].name
                    /\ result[r].line = tokens[k].line
                    /\ result[r].type =
                         IF OrphanAt(k) THEN "MISSING_OPEN" ELSE "MISMATCH"

\* one run with both cases, in which deduplication removed an error
C6_Witness ==
    /\ Done
    /\ \E k \in 1..i : OrphanAt(k)
    /\ \E k \in 1..i : MismatchAt(k)
    /\ Len(result) < Len(errors)

\* expected is set on MISMATCH errors only and differs from tag
ExpectedOnlyOnMismatch ==
    \A e \in 1..Len(errors) :
        errors[e].expected /= NoTag =>
            errors[e].type = "MISMATCH" /\ errors[e].expected /= errors[e].tag

\* The MISMATCH error token k is to emit on finding top
MismatchFor(k) ==
    LET top == Top(Before(k).stack)
        e == errors[Before(k).nerr + 1]
    IN  /\ Len(Emitted(k)) >= 1
        /\ e.type = "MISMATCH"
        /\ e.tag = tokens[k].name
        /\ e.expected = top.name
        /\ e.line = tokens[k].line
        /\ e.column = tokens[k].column
        /\ e.relatedLine = top.line
        /\ \A x \in 2..Len(Emitted(k)) : Emitted(k)[x].type /= "MISMATCH"

MissingCloseForTop(k) ==
    \E x \in 1..Len(Emitted(k)) :
        /\ Emitted(k)[x].type = "MISSING_CLOSE"
        /\ Emitted(k)[x].tag = Top(Before(k).stack).name

\* C7 as stated: a non-void CLOSE n that finds m /= n on top emits one
\* MISMATCH (tag n, expected m, the token's position, relatedLine = m's
\* opening line) and, when n is open deeper in the stack, a MISSING_CLOSE
\* for m; expected is set on MISMATCH only and never equals tag.
C7_Original ==
    Done =>
    /\ ExpectedOnlyOnMismatch
    /\ \A k \in 1..i :
         MismatchAt(k) =>
             /\ MismatchFor(k)
             /\ OpenDeeper(tokens[k].name, Before(k).stack)
                    => MissingCloseForTop(k)

\* C7 amended: the MISSING_CLOSE for m is emitted when, after the MISMATCH,
\* the error count is still below maxErrors.
C7_MismatchAmended ==
    Done =>
    /\ ExpectedOnlyOnMismatch
    /\ \A k \in 1..i :
         MismatchAt(k) =>
             /\ MismatchFor(k)
             /\ (/\ OpenDeeper(tokens[k].name, Before(k).stack)
                 /\ Before(k).nerr + 1 < maxErrors)
                    => MissingCloseForTop(k)

\* a mismatch with n open deeper, its MISSING_CLOSE emitted
C7_Witness ==
    Done /\ \E k \in 1..i :
        /\ MismatchAt(k)
        /\ OpenDeeper(tokens[k].name, Before(k).stack)
        /\ Len(Emitted(k)) = 2
        /\ MissingCloseForTop(k)

\* C8: a non-void CLOSE on an empty stack appends exactly one MISSING_OPEN
\* with the token's name, line and column and leaves the stack empty; a
\* CLOSE whose name is on top pops exactly one entry and appends no error.
C8_OrphanAndMatchFrames ==
    Done =>
    \A k \in 1..i :
        /\ OrphanAt(k) =>
             /\ After(k).stack = <<>>
             /\ Len(Emitted(k)) = 1
             /\ Emitted(k)[1].type = "MISSING_OPEN"
             /\ Emitted(k)[1].tag = tokens[k].name
             /\ Emitted(k)[1].line = tokens[k].line
             /\ Emitted(k)[1].column = tokens[k].column
        /\ MatchAt(k) =>
             /\ After(k).stack = Pop(Before(k).stack)
             /\ After(k).nerr = Before(k).nerr

\* a matched pair followed by an orphan off the first column
C8_Witness ==
    Done /\ \E j \in 1..i, k \in 1..i :
        /\ j < k
        /\ MatchAt(j)
        /\ OrphanAt(k)
        /\ tokens[k].column /= tokens[k].line

\* C9: a void-named OPEN or CLOSE token leaves stack and errors as they
\* were, and the returned errors are (up to id) those of the same list
\* without its void-named tokens.
C9_VoidTokensInert ==
    Done =>
    /\ \A k \in 1..i :
         tokens[k].name \in VOID_ELEMENTS => After(k) = Before(k)
    /\ StripIds(result) =
         StripIds(ValidateTokens(NonVoidTokens(tokens), maxErrors, 0))

\* void tokens of both types inside a document with errors
C9_Witness ==
    /\ Done
    /\ result /= <<>>
    /\ \E j \in 1..i, k \in 1..i :
         /\ tokens[j].name \in VOID_ELEMENTS /\ tokens[j].type = "OPEN"
         /\ tokens[k].name \in VOID_ELEMENTS /\ tokens[k].type = "CLOSE"
         /\ Before(j).stack /= <<>>
         /\ Before(k).stack /= <<>>

\* The stack and error count at loop exit
AtExit == trace[Len(trace)]

HasMissingClose(errs, en, column, relatedLine) ==
    \E r \in 1..Len(errs) :
        /\ errs[r].type = "MISSING_CLOSE"
        /\ errs[r].tag = en.name
        /\ errs[r].line = en.line
        /\ errs[r].column = column
        /\ errs[r].relatedLine = relatedLine

\* C10 as stated: for every entry on the stack at end of input the result
\* holds a MISSING_CLOSE with its tag at its own line and column, relatedLine
\* unset (read in its most favourable case: the cap out of reach).
C10_Original ==
    (Done /\ maxErrors = DefaultMaxErrors) =>
        \A d \in 1..Len(AtExit.stack) :
            HasMissingClose(result, AtExit.stack[d],
                            AtExit.stack[d].column, NoLine)

\* C10 amended: at end of input the entries on the stack are popped
\* last-opened-first while the error count is below maxErrors; each popped
\* entry appends a MISSING_CLOSE with its tag at its own line and column,
\* relatedLine unset, and the result holds, for each, a MISSING_CLOSE with
\* that tag on that line (the first emitted of its (type, tag, line) class).
C10_EndOfInputAmended ==
    Done =>
        LET S == AtExit.stack
            room == IF maxErrors > AtExit.nerr THEN maxErrors - AtExit.nerr ELSE 0
            n == Min(Len(S), room)
        IN  /\ Len(errors) = AtExit.nerr + n
            /\ stack = SubSeq(S, 1, Len(S) - n)
            /\ \A j \in 1..n :
                 LET en == S[Len(S) - j + 1]
                     e == errors[AtExit.nerr + j]
                 IN  /\ e.type = "MISSING_CLOSE"
                     /\ e.tag = en.name
                     /\ e.line = en.line
                     /\ e.column = en.column
                     /\ e.relatedLine = NoLine
                     /\ \E r \in 1..Len(result) :
                          /\ result[r].type = "MISSING_CLOSE"
                          /\ result[r].tag = en.name
                          /\ result[r].line = en.line

\* two entries left at end of input, both popped, one of them missing from
\* the result at its own position
C10_Witness ==
    /\ Done
    /\ Len(AtExit.stack) >= 2
    /\ Len(errors) = AtExit.nerr + Len(AtExit.stack)
    /\ \E d \in 1..Len(AtExit.stack) :
         ~HasMissingClose(result, AtExit.stack[d],
                          AtExit.stack[d].column, NoLine)

\* ---------------------------------------------------------------------
\* C11: tags left open by a list without CLOSE tokens

NoCloseTokens(toks) == \A k \in 1..Len(toks) : toks[k].type = "OPEN"

DistinctNames(toks) ==
    \A j, k \in 1..Len(toks) : (j /= k) => (toks[j].name /= toks[k].name)

\* C11 as stated: with no CLOSE token and k non-void OPEN tokens of distinct
\* names the result is exactly k MISSING_CLOSE errors listed
\* last-opened-first (read in its most favourable case: the cap not below k).
C11_Original ==
    LET opens == NonVoidTokens(tokens)
        k == Len(opens)
    IN  (Done /\ NoCloseTokens(tokens) /\ DistinctNames(opens) /\ k <= maxErrors) =>
            /\ Len(result) = k
            /\ \A j \in 1..k :
                 /\ result[j].type = "MISSING_CLOSE"
                 /\ result[j].tag = opens[k - j + 1].name

\* C11 amended: with no CLOSE token and k non-void OPEN tokens of distinct
\* names, the drain appends min(k, maxErrors) MISSING_CLOSE errors
\* last-opened-first, and the returned list holds those same errors in
\* source order (outermost of them first, innermost last), each at its OPEN
\* token's line and column.
C11_UnclosedAmended ==
    LET opens == NonVoidTokens(tokens)
        k == Len(opens)
        n == Min(k, maxErrors)
    IN  (Done /\ NoCloseTokens(tokens) /\ DistinctNames(opens)) =>
            /\ Len(errors) = n
            /\ Len(result) = n
            /\ \A j \in 1..n :
                 /\ errors[j].type = "MISSING_CLOSE"
                 /\ errors[j].tag = opens[k - j + 1].name
                 /\ result[j].type = "MISSING_CLOSE"
                 /\ result[j].tag = opens[k - n + j].name
                 /\ result[j].line = opens[k - n + j].line
                 /\ result[j].column = opens[k - n + j].column

\* two distinct tags left open, both reported
C11_Witness ==
    /\ Done
    /\ NoCloseTokens(tokens)
    /\ Len(NonVoidTokens(tokens)) = 2
    /\ DistinctNames(NonVoidTokens(tokens))
    /\ Len(result) = 2
    /\ result[1].tag /= result[2].tag

\* ---------------------------------------------------------------------
\* C12: where the pushed entries go

OpenNonVoid(t) == t.type = "OPEN" /\ t.name \notin VOID_ELEMENTS

InStack(name, s) == \E d \in 1..Len(s) : s[d].name = name

\* non-void OPEN tokens processed, each pushed on the stack
PushedCount == Cardinality({ k \in 1..i : OpenNonVoid(tokens[k]) })

\* non-void CLOSE tokens that found an entry of their name on the stack,
\* on top or after recovery
MatchedCount ==
    Cardinality({ k \in 1..i :
                    CloseNonVoid(tokens[k]) /\ InStack(tokens[k].name, Before(k).stack) })

MissingCloseCount(errs) ==
    Cardinality({ r \in 1..Len(errs) : errs[r].type = "MISSING_CLOSE" })

\* entries the recovery loop of token k popped without reporting them
SilentPopsAt(k) ==
    LET t == tokens[k]
        before == Len(Before(k).stack)
        after == Len(After(k).stack)
        matched == IF CloseNonVoid(t) /\ InStack(t.name, Before(k).stack) THEN 1 ELSE 0
        pushed == IF OpenNonVoid(t) THEN 1 ELSE 0
    IN  (before + pushed - after - matched) - MissingCloseCount(Emitted(k))

RECURSIVE SilentPops(_)
SilentPops(k) == IF k = 0 THEN 0 ELSE SilentPopsAt(k) + SilentPops(k - 1)

\* C12 as stated: pushed = matched + MISSING_CLOSE errors of the result
\* (read in its most favourable case: the cap never reached).
C12_Original ==
    (Done /\ Len(errors) < maxErrors) =>
        PushedCount = MatchedCount + MissingCloseCount(result)

\* C12 amended: pushed = matched + MISSING_CLOSE errors appended before
\* deduplication + entries popped unreported or left on the stack, the last
\* two being zero unless the error count reached maxErrors; the result
\* holds one MISSING_CLOSE for every distinct (tag, line) among those
\* appended.
C12_ConservationAmended ==
    Done =>
        /\ \A k \in 1..i : SilentPopsAt(k) >= 0
        /\ PushedCount = MatchedCount + MissingCloseCount(errors)
                           + SilentPops(i) + Len(stack)
        /\ (Len(errors) < maxErrors) => (SilentPops(i) = 0 /\ Len(stack) = 0)
        /\ MissingCloseCount(result) =
             Cardinality({ <<errors[r].tag, errors[r].line>> :
                             r \in { q \in 1..Len(errors) :
                                       errors[q].type = "MISSING_CLOSE" } })

\* a matched tag, two unclosed tags reported on one line, the cap not reached
C12_Witness ==
    /\ Done
    /\ Len(errors) < maxErrors
    /\ MatchedCount >= 1
    /\ MissingCloseCount(errors) >= 2
    /\ MissingCloseCount(result) < MissingCloseCount(errors)

\* ---------------------------------------------------------------------
\* C13: what becomes of a CLOSE token

\* Token k popped the entry on top of the stack, which bears its name.
HandledByPop(k) ==
    /\ Before(k).stack /= <<>>
    /\ Top(Before(k).stack).name = tokens[k].name
    /\ After(k).stack = Pop(Before(k).stack)
    /\ Emitted(k) = <<>>

\* Token k produced a MISSING_OPEN error and left the stack alone.
HandledByMissingOpen(k) ==
    /\ Len(Emitted(k)) = 1
    /\ Emitted(k)[1].type = "MISSING_OPEN"
    /\ Emitted(k)[1].tag = tokens[k].name
    /\ After(k).stack = Before(k).stack

\* Token k produced a MISMATCH error and recovery unwound the stack: down
\* to below the nearest entry of its name, or to empty if there is none.
HandledByMismatch(k) ==
    /\ Len(Emitted(k)) >= 1
    /\ Emitted(k)[1].type = "MISMATCH"
    /\ Emitted(k)[1].tag = tokens[k].name
    /\ Len(After(k).stack) < Len(Before(k).stack)
    /\ After(k).stack = SubSeq(Before(k).stack, 1, Len(After(k).stack))
    /\ \A d \in (Len(After(k).stack) + 2)..Len(Before(k).stack) :
         Before(k).stack[d].name /= tokens[k].name
    /\ (After(k).stack /= <<>>) =>
         Before(k).stack[Len(After(k).stack) + 1].name = tokens[k].name

ExactlyOneHandling(k) ==
    Cardinality({ h \in {"pop", "missing-open", "mismatch"} :
                    \/ h = "pop" /\ HandledByPop(k)
                    \/ h = "missing-open" /\ HandledByMissingOpen(k)
                    \/ h = "mismatch" /\ HandledByMismatch(k) }) = 1

\* C13 as stated: every CLOSE token of the list is handled in exactly one
\* of the three ways.
C13_Original ==
    Done =>
        \A k \in 1..Len(tokens) :
            (tokens[k].type = "CLOSE") => (k <= i /\ ExactlyOneHandling(k))

\* C13 amended: every non-void CLOSE token the loop reaches is handled in
\* exactly one of the three ways; a void-named CLOSE token the loop reaches
\* has no effect; and the loop leaves tokens unreached only when the error
\* count has reached maxErrors.
C13_CloseHandledAmended ==
    Done =>
        /\ \A k \in 1..i :
             /\ CloseNonVoid(tokens[k]) => ExactlyOneHandling(k)
             /\ (tokens[k].type = "CLOSE" /\ IsVoid(tokens[k].name)) =>
                    (After(k).stack = Before(k).stack /\ Emitted(k) = <<>>)
        /\ (i < Len(tokens)) => Len(errors) >= maxErrors

\* a pop, then a mismatch whose recovery reported an unclosed tag
C13_Witness ==
    /\ Done
    /\ \E j, k \in 1..i :
         /\ j < k
         /\ CloseNonVoid(tokens[j]) /\ HandledByPop(j)
         /\ CloseNonVoid(tokens[k]) /\ HandledByMismatch(k)
         /\ Len(Emitted(k)) = 2

\* ---------------------------------------------------------------------
\* C14: the error cap

\* C14: at every step the number of accumulated errors is at most
\* maxErrors, a token or the end-of-input loop that finds the count at
\* maxErrors appends nothing, and the returned list has at most maxErrors
\* entries.
C14_CapBoundsErrors ==
    /\ Len(errors) <= maxErrors
    /\ \A k \in 1..Len(trace) : trace[k].nerr <= maxErrors
    /\ \A k \in 1..i :
         (Before(k).nerr >= maxErrors) => (After(k).nerr = Before(k).nerr)
    /\ Done =>
         /\ (AtExit.nerr >= maxErrors) => (Len(errors) = AtExit.nerr)
         /\ Len(result) <= maxErrors

\* the cap was reached and cut something off: a token not examined, an
\* entry popped unreported, or an entry left on the stack
C14_Witness ==
    /\ Done
    /\ maxErrors >= 1
    /\ Len(errors) = maxErrors
    /\ (i < Len(tokens) \/ SilentPops(i) > 0 \/ stack /= <<>>)

\* ---------------------------------------------------------------------
\* C15: termination

\* Token lists for the termination check: the lines play no part in it, so
\* every token is on line 1.
MaxFairTokens == 2

FairLists ==
    { l \in TokenLists(MaxFairTokens) : \A k \in 1..Len(l) : l[k].line = 1 }

InitFair == InitWith(FairLists)

\* The call runs to completion: a step that can be taken is taken.
SpecFair == InitFair /\ [][Next]_vars /\ WF_vars(Next)

\* C15: every call to validateTokens returns (an error list, never a
\* failure); on the way the loop index only moves forward over the tokens,
\* one snapshot per token visited, and the stack is never popped when empty
\* (the pops of recovery and of end of input are bounded by the pushes).
C15_Terminates ==
    /\ <>(Done /\ \A r \in 1..Len(result) :
                     \E q \in 1..Len(errors) : result[r] = errors[q])
    /\ [](/\ i <= Len(tokens)
          /\ Len(trace) = i + (IF Done THEN 1 ELSE 0)
          /\ PushedCount >= Len(stack))
    /\ [][i' = i + 1 \/ (i' = i /\ pc' = "done")]_vars

\* a run that went through the recovery loop and returned
C15_Witness ==
    /\ Done
    /\ i = Len(tokens)
    /\ \E k \in 1..i : MismatchAt(k) /\ Len(Emitted(k)) >= 2

\* ---------------------------------------------------------------------
\* C16: one stray CLOSE token in a well-formed list

\* toks without its k-th token
RemoveAt(toks, k) == SubSeq(toks, 1, k - 1) \o SubSeq(toks, k + 1, Len(toks))

\* Token s is a stray: a non-void CLOSE token whose name matches no open
\* element, in a list that is well-formed without it.
StrayAt(s) ==
    /\ CloseNonVoid(tokens[s])
    /\ Balanced(NonVoidTokens(RemoveAt(tokens, s)))
    /\ ~InStack(tokens[s].name, Before(s).stack)

\* an error reported for token k: a MISSING_OPEN or MISMATCH at its position
ErrorReportedFor(k) ==
    \E r \in 1..Len(result) :
        /\ result[r].type \in {"MISSING_OPEN", "MISMATCH"}
        /\ result[r].tag = tokens[k].name
        /\ result[r].line = tokens[k].line
        /\ result[r].column = tokens[k].column

\* C16: when one stray non-void CLOSE token is inserted into a well-formed
\* token list, no error is reported for any later CLOSE token, each of
\* which is correctly paired in the well-formed list (the cap out of reach).
C16_NoCascade ==
    (Done /\ maxErrors = DefaultMaxErrors) =>
        \A s \in 1..i :
            StrayAt(s) =>
                \A k \in (s + 1)..i :
                    CloseNonVoid(tokens[k]) => ~ErrorReportedFor(k)

\* =====================================================================
\* parser.ts: parseContent.  The text is a sequence of characters; the
\* tokenizer (htmlparser2, HTML mode) walks over the items the text was
\* laid out from and calls the handlers of parseContent, which collect
\* tokens and exclusion ranges; the secondary scan then searches the text
\* itself for closing tags.  Offsets are 0-based as in the code.

\* ------------------------------------------------------------------ bounds
MaxItems == 3

\* ------------------------------------------------------- program constants
\* RAW_TEXT_ELEMENTS (parser.ts:13)
RAW_TEXT_ELEMENTS == {"script", "style"}

\* the window of the attribute value search (parser.ts:97)
AttrSearchWindow == 2048

\* indexOf "not found", and rawTextStart "no raw-text element open"
NotFound == -1

\* ------------------------------------------------------------ input domain
\* Character classes of closeTagRe (parser.ts:168), over the characters the
\* checked documents are written in.
Letters == {"a", "b", "e", "l", "r", "s", "t", "y", "A", "B", "C", "D", "T"}
NameChars == Letters \cup {"_", ":", "-"}
Spaces == {" ", "\n"}

\* String.prototype.toLowerCase
LowerChar(c) ==
    CASE c = "A" -> "a" [] c = "B" -> "b" [] c = "C" -> "c"
      [] c = "D" -> "d" [] c = "T" -> "t" [] OTHER -> c

ToLowerCase(cs) == [k \in DOMAIN cs |-> LowerChar(cs[k])]

\* The tag names of the checked documents, spelled out in characters.
Spelling ==
    [n \in {"a", "b", "br", "style"} |->
        CASE n = "a" -> <<"a">>
          [] n = "b" -> <<"b">>
          [] n = "br" -> <<"b", "r">>
          [] n = "style" -> <<"s", "t", "y", "l", "e">>]

\* The name a character sequence spells ("?" for any other sequence)
NameOf(cs) ==
    IF \E n \in DOMAIN Spelling : Spelling[n] = cs
    THEN CHOOSE n \in DOMAIN Spelling : Spelling[n] = cs
    ELSE "?"

\* Attribute values: a closing tag written out, and the same with its "<"
\* written as the entity &lt;
ValueCloseB == <<"<", "/", "b", ">">>
ValueEntityCloseB == <<"&", "l", "t", ";", "/", "b", ">">>

AttrText(n, v) == <<" ", n, "=", "\"">> \o v \o <<"\"">>

OpenTagText(n, attrs) ==
    <<"<">> \o Spelling[n]
        \o (IF Len(attrs) >= 1 THEN AttrText("s", attrs[1]) ELSE <<>>)
        \o (IF Len(attrs) >= 2 THEN AttrText("t", attrs[2]) ELSE <<>>)
        \o <<">">>

OpenItem(n, attrs) ==
    [kind |-> "open", name |-> n, attrs |-> attrs, text |-> OpenTagText(n, attrs)]

CloseItem(n, spelt) ==
    [kind |-> "close", name |-> n, attrs |-> <<>>,
     text |-> <<"<", "/">> \o spelt \o <<">">>]

OtherItem(kind, text) == [kind |-> kind, name |-> "", attrs |-> <<>>, text |-> text]

\* The pieces documents are laid out from: open tags with and without
\* attribute values, closing tags (one in upper case, one void), a comment
\* and a CDATA section that contain a closing tag, and a line break.
ItemKinds ==
    { OpenItem("b", <<>>),
      OpenItem("a", <<ValueCloseB>>),
      OpenItem("a", <<ValueCloseB, ValueCloseB>>),
      OpenItem("a", <<ValueEntityCloseB>>),
      OpenItem("style", <<>>),
      CloseItem("b", <<"b">>),
      CloseItem("b", <<"B">>),
      CloseItem("br", <<"b", "r">>),
      CloseItem("style", <<"s", "t", "y", "l", "e">>),
      OtherItem("comment", <<"<", "!", "-", "-">> \o ValueCloseB \o <<"-", "-", ">">>),
      OtherItem("cdata", <<"<", "!", "[", "C", "D", "A", "T", "A", "[">>
                            \o ValueCloseB \o <<"]", "]", ">">>),
      OtherItem("text", <<"\n">>) }

RECURSIVE StartOf(_, _)
StartOf(kinds, k) ==
    IF k = 1 THEN 0 ELSE StartOf(kinds, k - 1) + Len(kinds[k - 1].text)

\* The items with the offset each starts at
Layout(kinds) ==
    [k \in DOMAIN kinds |->
        [kind |-> kinds[k].kind, name |-> kinds[k].name, attrs |-> kinds[k].attrs,
         text |-> kinds[k].text, at |-> StartOf(kinds, k)]]

RECURSIVE Concat(_)
Concat(kinds) ==
    IF kinds = <<>> THEN <<>>
    ELSE Concat(SubSeq(kinds, 1, Len(kinds) - 1)) \o kinds[Len(kinds)].text

Documents(n) == UNION { [1..len -> ItemKinds] : len \in 0..n }

\* ------------------------------------------------------------------ parser.ts
\* content[offset], or "" past the end
CharAt(text, offset) ==
    IF offset >= 0 /\ offset < Len(text) THEN text[offset + 1] ELSE ""

\* content.slice(from, to + 1)
Slice(text, from, to) == SubSeq(text, from + 1, to + 1)

\* content.indexOf(val, from)
IndexOf(text, val, from) ==
    LET hits == { o \in from..(Len(text) - Len(val)) :
                    Slice(text, o, o + Len(val) - 1) = val }
    IN  IF hits = {} THEN NotFound
        ELSE CHOOSE o \in hits : \A h \in hits : o <= h

\* The line-start table (lines 44-47): 0 and the offset after every line
\* break, in increasing order
LineOffsets(text) ==
    LET starts == {0} \cup { k \in 1..Len(text) : text[k] = "\n" }
    IN  [r \in 1..Cardinality(starts) |->
            CHOOSE x \in starts : Cardinality({ y \in starts : y < x }) = r - 1]

\* Mutant of Search: a line start equal to the offset sends the search to the
\* lines before it.
RECURSIVE SearchStrict(_, _, _, _)
SearchStrict(table, lo, hi, offset) ==
    IF lo < hi
    THEN LET mid == (lo + hi + 1) \div 2
         IN  IF table[mid + 1] < offset
             THEN SearchStrict(table, mid, hi, offset)
             ELSE SearchStrict(table, lo, mid - 1, offset)
    ELSE lo

\* The binary search of offsetToLineCol (lines 50-56); lo and hi are
\* 0-based indexes into the table
RECURSIVE Search(_, _, _, _)
Search(table, lo, hi, offset) ==
    IF lo < hi
    THEN LET mid == (lo + hi + 1) \div 2
         IN  IF table[mid + 1] <= offset
             THEN Search(table, mid, hi, offset)
             ELSE Search(table, lo, mid - 1, offset)
    ELSE lo

\* offsetToLineCol (lines 49-58)
OffsetToLineCol(text, offset) ==
    LET table == LineOffsets(text)
        lo == Search(table, 0, Len(table) - 1, offset)
    IN  [line |-> lo + 1, column |-> offset - table[lo + 1] + 1]

MkToken(type, name, where) ==
    [type |-> type, name |-> name, line |-> where.line, column |-> where.column]

\* What the handlers write to
Collected(toks, emitted, ranges, rawStart) ==
    [tokens |-> toks, emitted |-> emitted, ranges |-> ranges, rawTextStart |-> rawStart]

\* The entity decoding the tokenizer applies to attribute values
\* (decodeEntities: true, line 142)
RECURSIVE DecodeEntities(_)
DecodeEntities(cs) ==
    IF cs = <<>> THEN <<>>
    ELSE IF Len(cs) >= 4 /\ SubSeq(cs, 1, 4) = <<"&", "l", "t", ";">>
         THEN <<"<">> \o DecodeEntities(SubSeq(cs, 5, Len(cs)))
    ELSE <<cs[1]>> \o DecodeEntities(Tail(cs))

\* The exclusion ranges of the attribute values, from the j-th on
\* (lines 91-102)
RECURSIVE AttrRanges(_, _, _, _, _)
AttrRanges(text, attrs, j, offset, ranges) ==
    IF j > Len(attrs) THEN ranges
    ELSE LET val == attrs[j]
             attrValIdx == IndexOf(text, val, offset)
             searchTo == Min(Len(text), offset + AttrSearchWindow)
         IN  IF val = <<>> THEN AttrRanges(text, attrs, j + 1, offset, ranges)
             ELSE IF attrValIdx /= NotFound /\ attrValIdx < searchTo
                  THEN AttrRanges(text, attrs, j + 1, offset,
                                  Append(ranges,
                                         <<attrValIdx, attrValIdx + Len(val) - 1>>))
             ELSE AttrRanges(text, attrs, j + 1, offset, ranges)

\* onopentag (lines 75-108); attrs holds the decoded values
OnOpenTagHandler(c, text, name, attrs, startIndex, endIndex) ==
    Collected(Append(c.tokens, MkToken("OPEN", name, OffsetToLineCol(text, startIndex))),
              c.emitted,
              AttrRanges(text, attrs, 1, startIndex, c.ranges),
              IF name \in RAW_TEXT_ELEMENTS THEN endIndex + 1 ELSE c.rawTextStart)

\* onclosetag (lines 109-126)
OnCloseTagHandler(c, text, name, isImplied, startIndex) ==
    IF isImplied THEN c
    ELSE Collected(Append(c.tokens,
                          MkToken("CLOSE", name, OffsetToLineCol(text, startIndex))),
                   c.emitted \cup {startIndex},
                   IF name \in RAW_TEXT_ELEMENTS /\ c.rawTextStart /= NotFound
                   THEN Append(c.ranges, <<c.rawTextStart, startIndex - 1>>)
                   ELSE c.ranges,
                   IF name \in RAW_TEXT_ELEMENTS /\ c.rawTextStart /= NotFound
                   THEN NotFound
                   ELSE c.rawTextStart)

\* oncomment and oncdatastart (lines 127-133)
OnCommentHandler(c, startIndex, endIndex) ==
    Collected(c.tokens, c.emitted, Append(c.ranges, <<startIndex, endIndex>>),
              c.rawTextStart)

\* excludedRanges.sort((a, b) => a[0] - b[0]) (line 158), a stable sort
RECURSIVE InsertRange(_, _)
InsertRange(sorted, r) ==
    IF sorted = <<>> THEN <<r>>
    ELSE IF sorted[Len(sorted)][1] - r[1] <= 0 THEN Append(sorted, r)
    ELSE Append(InsertRange(Pop(sorted), r), sorted[Len(sorted)])

\* Mutant of SortRanges: the ranges stay in registration order.
SortRangesNot(ranges) == ranges

RECURSIVE SortRanges(_)
SortRanges(ranges) ==
    IF ranges = <<>> THEN <<>>
    ELSE InsertRange(SortRanges(Pop(ranges)), ranges[Len(ranges)])

\* isExcluded (lines 160-166), from the k-th range on
RECURSIVE IsExcludedFrom(_, _, _)
IsExcludedFrom(sorted, k, offset) ==
    IF k > Len(sorted) THEN FALSE
    ELSE IF sorted[k][1] > offset THEN FALSE
    ELSE IF offset >= sorted[k][1] /\ offset <= sorted[k][2] THEN TRUE
    ELSE IsExcludedFrom(sorted, k + 1, offset)

IsExcluded(sorted, offset) == IsExcludedFrom(sorted, 1, offset)

\* Where a run of characters of class cls that starts at offset p ends
RECURSIVE SkipWhile(_, _, _)
SkipWhile(text, p, cls) ==
    IF CharAt(text, p) \in cls THEN SkipWhile(text, p + 1, cls) ELSE p

\* closeTagRe = /<\/([a-zA-Z][a-zA-Z0-9_:-]*)\s*>/ tried at offset o
\* (line 168): whether it matches, the name it captures, where it ends
CloseTagRe(text, o) ==
    LET nameEnd == SkipWhile(text, o + 3, NameChars)
        gt == SkipWhile(text, nameEnd, Spaces)
    IN  IF /\ CharAt(text, o) = "<"
           /\ CharAt(text, o + 1) = "/"
           /\ CharAt(text, o + 2) \in Letters
           /\ CharAt(text, gt) = ">"
        THEN [found |-> TRUE, name |-> Slice(text, o + 2, nameEnd - 1), last |-> gt]
        ELSE [found |-> FALSE, name |-> <<>>, last |-> o]

\* closeTagRe.exec(content) with lastIndex = from: the offset of the first
\* match at or after from, or -1 (line 171)
Exec(text, from) ==
    LET hits == { o \in from..(Len(text) - 1) : CloseTagRe(text, o).found }
    IN  IF hits = {} THEN NotFound
        ELSE CHOOSE o \in hits : \A h \in hits : o <= h

\* The loop of the secondary scan, lastIndex being from (lines 171-193)
RECURSIVE ScanFrom(_, _, _, _, _)
ScanFrom(text, from, toks, emitted, sorted) ==
    LET o == Exec(text, from)
        m == CloseTagRe(text, o)
        tagName == NameOf(ToLowerCase(m.name))
    IN  IF o = NotFound THEN toks
        ELSE IF tagName \in VOID_ELEMENTS
             THEN ScanFrom(text, m.last + 1, toks, emitted, sorted)
        ELSE IF o \in emitted
             THEN ScanFrom(text, m.last + 1, toks, emitted, sorted)
        ELSE IF IsExcluded(sorted, o)
             THEN ScanFrom(text, m.last + 1, toks, emitted, sorted)
        ELSE ScanFrom(text, m.last + 1,
                      Append(toks, MkToken("CLOSE", tagName,
                                           OffsetToLineCol(text, o))),
                      emitted, sorted)

\* tokens.sort by line, then column (line 196)
SortTokens(toks) == SortErrors(toks)

\* The secondary scan and the final sort (lines 156-197)
SecondaryScan(c, text) ==
    SortTokens(ScanFrom(text, 0, c.tokens, c.emitted, SortRanges(c.ranges)))

\* ------------------------------------------------------------ parser actions
CurCollected ==
    Collected(ptokens, emittedCloseOffsets, excludedRanges, rawTextStart)

Store(c) ==
    /\ ptokens' = c.tokens
    /\ emittedCloseOffsets' = c.emitted
    /\ excludedRanges' = c.ranges
    /\ rawTextStart' = c.rawTextStart

\* The locals of parseContent before parser.write (lines 39-71)
InitParse ==
    /\ ValidatorIdle
    /\ WorkerIdle
    /\ EditorIdle
    /\ LookupIdle
    /\ HostIdle
    /\ \E items \in Documents(MaxItems) :
          /\ doc = Layout(items)
          /\ content = Concat(items)
    /\ pos = 0
    /\ tkRawText = ""
    /\ ptokens = <<>>
    /\ emittedCloseOffsets = {}
    /\ excludedRanges = <<>>
    /\ rawTextStart = NotFound
    /\ ppc = "parse"

\* The item the tokenizer is at, and the tokenizer's startIndex and endIndex
\* for it
Item == doc[pos + 1]
EndIndex(it) == it.at + Len(it.text) - 1

Parsing == ppc = "parse" /\ pos < Len(doc)

\* The tokenizer reads an open tag and calls onopentag; after the open tag
\* of a raw-text element it reads text up to that element's closing tag.
OnOpenTag ==
    /\ Parsing
    /\ tkRawText = ""
    /\ Item.kind = "open"
    /\ Store(OnOpenTagHandler(CurCollected, content, Item.name,
                              [j \in DOMAIN Item.attrs |-> DecodeEntities(Item.attrs[j])],
                              Item.at, EndIndex(Item)))
    /\ tkRawText' = IF Item.name \in RAW_TEXT_ELEMENTS THEN Item.name ELSE ""
    /\ pos' = pos + 1
    /\ UNCHANGED <<content, doc, ppc, validatorVars, workerVars,
                   editorVars, lookupVars, hostVars>>

\* The tokenizer reads a closing tag and calls onclosetag for it.
OnCloseTag ==
    /\ Parsing
    /\ Item.kind = "close"
    /\ tkRawText \in {"", Item.name}
    /\ Store(OnCloseTagHandler(CurCollected, content, Item.name, FALSE, Item.at))
    /\ tkRawText' = ""
    /\ pos' = pos + 1
    /\ UNCHANGED <<content, doc, ppc, validatorVars, workerVars,
                   editorVars, lookupVars, hostVars>>

\* The tokenizer reads a closing tag and fires no event for it (its name is
\* not on the tokenizer's stack of open elements).
SwallowCloseTag ==
    /\ Parsing
    /\ Item.kind = "close"
    /\ tkRawText = ""
    /\ pos' = pos + 1
    /\ UNCHANGED <<content, doc, tkRawText, ptokens, emittedCloseOffsets,
                   excludedRanges, rawTextStart, ppc, validatorVars, workerVars,
                   editorVars, lookupVars, hostVars>>

\* The tokenizer reads a comment and calls oncomment.
OnComment ==
    /\ Parsing
    /\ tkRawText = ""
    /\ Item.kind = "comment"
    /\ Store(OnCommentHandler(CurCollected, Item.at, EndIndex(Item)))
    /\ pos' = pos + 1
    /\ UNCHANGED <<content, doc, tkRawText, ppc, validatorVars, workerVars,
                   editorVars, lookupVars, hostVars>>

\* The tokenizer reads a CDATA section and calls oncdatastart.
OnCDataStart ==
    /\ Parsing
    /\ tkRawText = ""
    /\ Item.kind = "cdata"
    /\ Store(OnCommentHandler(CurCollected, Item.at, EndIndex(Item)))
    /\ pos' = pos + 1
    /\ UNCHANGED <<content, doc, tkRawText, ppc, validatorVars, workerVars,
                   editorVars, lookupVars, hostVars>>

\* The tokenizer reads text: a text item, or anything in the body of a
\* raw-text element but that element's closing tag.  No handler collects it.
OnText ==
    /\ Parsing
    /\ \/ Item.kind = "text"
       \/ tkRawText /= "" /\ ~(Item.kind = "close" /\ Item.name = tkRawText)
    /\ pos' = pos + 1
    /\ UNCHANGED <<content, doc, tkRawText, ptokens, emittedCloseOffsets,
                   excludedRanges, rawTextStart, ppc, validatorVars, workerVars,
                   editorVars, lookupVars, hostVars>>

\* parser.end(): a raw-text element still open is closed by an implied
\* onclosetag at the end of the text; then the secondary scan and the sort
\* (lines 154-199).
ParseEnd ==
    /\ ppc = "parse"
    /\ pos = Len(doc)
    /\ LET c == IF tkRawText = "" THEN CurCollected
                ELSE OnCloseTagHandler(CurCollected, content, tkRawText, TRUE,
                                       Len(content))
       IN  /\ ptokens' = SecondaryScan(c, content)
           /\ emittedCloseOffsets' = c.emitted
           /\ excludedRanges' = c.ranges
           /\ rawTextStart' = c.rawTextStart
    /\ ppc' = "done"
    /\ UNCHANGED <<content, doc, pos, tkRawText, validatorVars, workerVars,
                   editorVars, lookupVars, hostVars>>

NextParse ==
    \/ OnOpenTag
    \/ OnCloseTag
    \/ SwallowCloseTag
    \/ OnComment
    \/ OnCDataStart
    \/ OnText
    \/ ParseEnd

SpecParse == InitParse /\ [][NextParse]_vars

\* ------------------------------------------------- parser claim vocabulary
ParseDone == ppc = "done"

\* The raw-text element whose body item k lies in ("" if in none), by the
\* layout of the document
RECURSIVE RawBefore(_)
RawBefore(k) ==
    IF k = 1 THEN ""
    ELSE LET prev == doc[k - 1]
             was == RawBefore(k - 1)
         IN  IF was = ""
             THEN (IF prev.kind = "open" /\ prev.name \in RAW_TEXT_ELEMENTS
                   THEN prev.name ELSE "")
             ELSE (IF prev.kind = "close" /\ prev.name = was THEN "" ELSE was)

\* Item k is text of a raw-text body: in the body, and not the closing tag
\* that ends it
InRawBody(k) ==
    RawBefore(k) /= "" /\ ~(doc[k].kind = "close" /\ doc[k].name = RawBefore(k))

\* Line and column of an offset, counted from the line breaks before it
TruePosition(offset) ==
    LET breaks == { o \in 0..(offset - 1) : CharAt(content, o) = "\n" }
        lineStart == IF breaks = {} THEN 0
                     ELSE 1 + CHOOSE o \in breaks : \A b \in breaks : b <= o
    IN  [line |-> 1 + Cardinality(breaks), column |-> offset - lineStart + 1]

\* CLOSE tokens of the output at the position of an offset
CloseTokensAt(offset) ==
    { t \in 1..Len(ptokens) :
        /\ ptokens[t].type = "CLOSE"
        /\ ptokens[t].line = TruePosition(offset).line
        /\ ptokens[t].column = TruePosition(offset).column }

\* Item k is a closing tag of the markup: a closing tag with a non-void
\* name outside the raw-text bodies (closing tags in comments, CDATA
\* sections and attribute values are no items of their own)
GenuineClose(k) ==
    /\ doc[k].kind = "close"
    /\ doc[k].name \notin VOID_ELEMENTS
    /\ ~InRawBody(k)

\* Offset within the open tag's text at which its j-th attribute value starts
RECURSIVE ValueStart(_, _)
ValueStart(it, j) ==
    IF j = 1 THEN Len(Spelling[it.name]) + 5
    ELSE ValueStart(it, j - 1) + Len(it.attrs[j - 1]) + 5

\* The offsets of the text occupied by attribute values of open tags
AttrValueOffsets ==
    UNION { { doc[k].at + ValueStart(doc[k], j) + d : d \in 0..(Len(doc[k].attrs[j]) - 1) }
            : <<k, j>> \in { kj \in (1..Len(doc)) \X (1..2) :
                               /\ doc[kj[1]].kind = "open"
                               /\ ~InRawBody(kj[1])
                               /\ kj[2] <= Len(doc[kj[1]].attrs) } }

\* The offsets of the text occupied by raw-text bodies
RawBodyOffsets ==
    UNION { doc[k].at..EndIndex(doc[k]) : k \in { j \in 1..Len(doc) : InRawBody(j) } }

\* ---------------------------------------------------------------------
\* C17: every closing tag of the markup, whether the tokenizer fired a close
\* event for it or swallowed it, is one CLOSE token of the output, with its
\* name at its own line and column.
C17_EveryCloseTagOnce ==
    ParseDone =>
        \A k \in 1..Len(doc) :
            GenuineClose(k) =>
                /\ Cardinality(CloseTokensAt(doc[k].at)) = 1
                /\ \A t \in CloseTokensAt(doc[k].at) : ptokens[t].name = doc[k].name

\* ---------------------------------------------------------------------
\* C18: no CLOSE token of the output lies inside an attribute value of an
\* open tag.
C18_NoTokenFromAttributeValue ==
    ParseDone => \A o \in AttrValueOffsets : CloseTokensAt(o) = {}

\* ---------------------------------------------------------------------
\* C19: no CLOSE token of the output lies inside the body of a raw-text
\* element, whether a closing tag ends the body or the end of the text does.
C19_NoTokenFromRawTextBody ==
    ParseDone => \A o \in RawBodyOffsets : CloseTokensAt(o) = {}

\* =====================================================================
\* validator.worker.ts: self.onmessage.  The host posts messages; the
\* worker handles them one at a time, each handler running to its end
\* before the next message is taken (the handler awaits nothing).

\* ------------------------------------------------------------------ bounds
MaxMessages == 3
MaxCallbacks == 2
MaxFound == 1

\* ------------------------------------------------------------ input domain
\* MainMessage (types/index.ts:58-63), the payload reduced to its presence
MainMessages ==
    { [type |-> "VALIDATE", payload |-> TRUE],
      [type |-> "VALIDATE", payload |-> FALSE],
      [type |-> "CANCEL", payload |-> FALSE] }

\* WorkerMessage (types/index.ts:52-55), with the request it is posted for
\* (history); the payload of a PROGRESS message is left out
WorkerMessage(type, req, payload) ==
    [type |-> type, req |-> req, payload |-> payload]

NoPayload == <<>>

\* WorkerCompletePayload (types/index.ts:44-46), the list reduced to its
\* length
CompletePayload(n) == [errors |-> n]

\* WorkerErrorPayload (types/index.ts:48-50)
ErrorPayload(message) == [errorMessage |-> message]

TimeoutMessage == "Validation timeout after 10 seconds. Partial results shown."

\* -------------------------------------------------------------- the worker
\* The host posts a message to the worker.
HostPost ==
    /\ Len(sent) < MaxMessages
    /\ \E m \in MainMessages : sent' = Append(sent, m)
    /\ sentDuring' = IF wpc /= "idle" /\ sent'[Len(sent')].type = "CANCEL"
                     THEN sentDuring \cup {Len(sent')}
                     ELSE sentDuring
    /\ UNCHANGED <<taken, outbox, cancelled, wpc, callbacksLeft, accumulated,
                   expired, validatorVars, parserVars,
                   editorVars, lookupVars, hostVars>>

\* Ten seconds have passed since startTime was read (line 22).
Tick ==
    /\ wpc /= "idle"
    /\ ~expired
    /\ expired' = TRUE
    /\ UNCHANGED <<sent, taken, outbox, cancelled, wpc, callbacksLeft,
                   accumulated, sentDuring, validatorVars, parserVars,
                   editorVars, lookupVars, hostVars>>

\* The request being handled is the taken-th message posted.
Request == taken

\* Mutant of PostError: the error is reported and validation goes on.
PostErrorAndGoOn ==
    /\ outbox' = Append(outbox, WorkerMessage("ERROR", Request,
                                              ErrorPayload(TimeoutMessage)))
    /\ wpc' = wpc
    /\ callbacksLeft' = callbacksLeft - 1
    /\ UNCHANGED <<accumulated, expired>>

\* The catch block (lines 67-73); the only throw in the try block is the
\* one of line 45.  The handler ends and its locals are gone.
PostError ==
    /\ outbox' = Append(outbox, WorkerMessage("ERROR", Request,
                                              ErrorPayload(TimeoutMessage)))
    /\ wpc' = "idle"
    /\ callbacksLeft' = 0
    /\ accumulated' = 0
    /\ expired' = FALSE

\* Mutant of OnMessage: a VALIDATE message leaves the flag as it is.
OnMessageKeepFlag ==
    /\ wpc = "idle"
    /\ taken < Len(sent)
    /\ taken' = taken + 1
    /\ LET m == sent[taken + 1]
       IN  IF m.type = "CANCEL"
           THEN /\ cancelled' = TRUE
                /\ UNCHANGED <<outbox, wpc, expired>>
           ELSE IF m.type /= "VALIDATE" \/ ~m.payload
           THEN UNCHANGED <<outbox, wpc, cancelled, expired>>
           ELSE /\ cancelled' = cancelled
                /\ expired' = FALSE
                /\ outbox' = Append(outbox,
                       WorkerMessage("PROGRESS", taken + 1, NoPayload))
                /\ wpc' = "parse"
    /\ UNCHANGED <<sent, callbacksLeft, accumulated, sentDuring,
                   validatorVars, parserVars,
                   editorVars, lookupVars, hostVars>>

\* onmessage from its start to the call of parseContent (lines 8-32)
OnMessage ==
    /\ wpc = "idle"
    /\ taken < Len(sent)
    /\ taken' = taken + 1
    /\ LET m == sent[taken + 1]
       IN  IF m.type = "CANCEL"
           THEN /\ cancelled' = TRUE
                /\ UNCHANGED <<outbox, wpc, expired>>
           ELSE IF m.type /= "VALIDATE" \/ ~m.payload
           THEN UNCHANGED <<outbox, wpc, cancelled, expired>>
           ELSE /\ cancelled' = FALSE
                /\ expired' = FALSE
                /\ outbox' = Append(outbox,
                       WorkerMessage("PROGRESS", taken + 1, NoPayload))
                /\ wpc' = "parse"
    /\ UNCHANGED <<sent, callbacksLeft, accumulated, sentDuring,
                   validatorVars, parserVars,
                   editorVars, lookupVars, hostVars>>

\* parseContent, the first look at the flag, and the call of validateTokens,
\* which is to make some number of progress callbacks (lines 35-40)
ParseStep ==
    /\ wpc = "parse"
    /\ IF cancelled
       THEN /\ wpc' = "idle"
            /\ expired' = FALSE
            /\ UNCHANGED <<callbacksLeft, accumulated>>
       ELSE /\ wpc' = "validate"
            /\ callbacksLeft' \in 0..MaxCallbacks
            /\ accumulated' = 0
            /\ UNCHANGED expired
    /\ UNCHANGED <<sent, taken, outbox, cancelled, sentDuring,
                   validatorVars, parserVars,
                   editorVars, lookupVars, hostVars>>

\* Mutant of DeadlinePassed: the deadline is never seen to have passed.
DeadlineNeverPassed == FALSE

\* The test of line 44
DeadlinePassed == expired

\* One onProgress callback (lines 43-57): past the deadline it throws and
\* the catch block posts ERROR; otherwise it posts PROGRESS, and
\* validateTokens goes on to the next callback or to its return, its
\* errors growing meanwhile.
OnProgress ==
    /\ wpc = "validate"
    /\ callbacksLeft > 0
    /\ IF DeadlinePassed
       THEN PostError
       ELSE /\ outbox' = Append(outbox,
                   WorkerMessage("PROGRESS", Request, NoPayload))
            /\ wpc' = wpc
            /\ callbacksLeft' = callbacksLeft - 1
            /\ accumulated' \in accumulated..MaxFound
            /\ UNCHANGED expired
    /\ UNCHANGED <<sent, taken, cancelled, sentDuring,
                   validatorVars, parserVars,
                   editorVars, lookupVars, hostVars>>

\* validateTokens returns its errors; the second look at the flag;
\* COMPLETE (lines 60-66).  The handler ends and its locals are gone.
Complete ==
    /\ wpc = "validate"
    /\ callbacksLeft = 0
    /\ IF cancelled
       THEN UNCHANGED outbox
       ELSE outbox' = Append(outbox,
                WorkerMessage("COMPLETE", Request, CompletePayload(accumulated)))
    /\ wpc' = "idle"
    /\ accumulated' = 0
    /\ expired' = FALSE
    /\ UNCHANGED <<sent, taken, cancelled, callbacksLeft, sentDuring,
                   validatorVars, parserVars,
                   editorVars, lookupVars, hostVars>>

WorkerStep == OnMessage \/ ParseStep \/ OnProgress \/ Complete

InitWorker == ValidatorIdle /\ ParserIdle /\ WorkerIdle /\ EditorIdle /\ LookupIdle /\ HostIdle

NextWorker == HostPost \/ Tick \/ WorkerStep

\* The worker's event loop takes every queued message and runs every
\* handler to its end.
SpecWorker == InitWorker /\ [][NextWorker]_vars /\ WF_vars(WorkerStep)

\* ------------------------------------------------- worker claim vocabulary
\* The messages the worker has posted for request r
PostedFor(r) == SelectSeq(outbox, LAMBDA m : m.req = r)

Terminal(m) == m.type \in {"COMPLETE", "ERROR"}

\* Request r is a VALIDATE request with a payload whose handling has begun
Started(r) ==
    r <= taken /\ sent[r].type = "VALIDATE" /\ sent[r].payload

\* The handler of request r has returned
Handled(r) == r < taken \/ (r = taken /\ wpc = "idle")

HasTerminal(r) ==
    \E j \in 1..Len(PostedFor(r)) : Terminal(PostedFor(r)[j])

\* ---------------------------------------------------------------------
\* C20: the messages posted for a VALIDATE request with a payload are
\* PROGRESS messages followed, once its handling ends, by exactly one
\* terminal message (COMPLETE or ERROR), with nothing after it; and every
\* such request the worker has begun to handle does get its terminal
\* message.
C20_OneTerminalMessage ==
    /\ [](\A r \in 1..Len(sent) :
            Started(r) =>
                LET ms == PostedFor(r)
                IN  /\ \A j \in 1..(Len(ms) - 1) : ms[j].type = "PROGRESS"
                    /\ Handled(r) => (ms /= <<>> /\ Terminal(ms[Len(ms)]))
                    /\ ~Handled(r) => \A j \in 1..Len(ms) : ms[j].type = "PROGRESS")
    /\ \A r \in 1..MaxMessages : [](Started(r) => <>HasTerminal(r))

\* one request ended with COMPLETE after a progress callback, a later one
\* with ERROR
C20_Witness ==
    \E q, r \in 1..Len(sent) :
        /\ q < r
        /\ Started(q) /\ Handled(q)
        /\ Len(PostedFor(q)) >= 3
        /\ PostedFor(q)[Len(PostedFor(q))].type = "COMPLETE"
        /\ Started(r) /\ Handled(r)
        /\ PostedFor(r)[Len(PostedFor(r))].type = "ERROR"

\* ---------------------------------------------------------------------
\* A CANCEL message has been posted by the host while the handler of the
\* current VALIDATE request was running: it waits in the worker's message
\* queue behind that handler.
CancelSentDuring ==
    /\ wpc /= "idle"
    /\ \E k \in sentDuring : k > taken /\ sent[k].type = "CANCEL"

\* The step posts a message of one of the given types.
Posts(types) ==
    /\ Len(outbox') = Len(outbox) + 1
    /\ outbox'[Len(outbox')].type \in types

\* C21: cancellation is effective: once the host has sent CANCEL while a
\* VALIDATE request is being processed, the worker posts no further
\* PROGRESS and no COMPLETE message for that request.
C21_CancelStopsValidation ==
    [][CancelSentDuring => ~Posts({"PROGRESS", "COMPLETE"})]_vars

\* ---------------------------------------------------------------------
\* The step is a progress callback of the running validateTokens call.
CallbackRuns == wpc = "validate" /\ callbacksLeft' < callbacksLeft

ErrorsFor(r) == SelectSeq(PostedFor(r), LAMBDA m : m.type = "ERROR")

\* C22: the deadline is enforced inside the progress callback: a callback
\* that runs after the deadline has passed posts ERROR for the request
\* and ends its handling, so that validation stops there; the ERROR
\* message is the only one of the request and nothing is posted for the
\* request after it.
C22_DeadlineInCallback ==
    /\ [][(CallbackRuns /\ expired) =>
            /\ Posts({"ERROR"})
            /\ outbox'[Len(outbox')].req = Request
            /\ wpc' = "idle"]_vars
    /\ [](\A r \in 1..Len(sent) :
            ErrorsFor(r) /= <<>> =>
                /\ Len(ErrorsFor(r)) = 1
                /\ PostedFor(r)[Len(PostedFor(r))].type = "ERROR"
                /\ Handled(r))

\* a request whose first callback posted PROGRESS and whose second one,
\* run after the deadline, ended it with ERROR
C22_Witness ==
    /\ wpc = "idle" /\ taken >= 1
    /\ Started(taken)
    /\ Len(PostedFor(taken)) = 3
    /\ PostedFor(taken)[3].type = "ERROR"

\* ---------------------------------------------------------------------
\* C23: when the timeout ends a validation, the ERROR message the host
\* receives carries the partial results: the errors validateTokens had
\* accumulated when the deadline was seen are part of its payload.
C23_TimeoutCarriesPartialResults ==
    [][(CallbackRuns /\ expired /\ accumulated > 0) =>
          LET m == outbox'[Len(outbox')]
          IN  /\ Posts({"ERROR"})
              /\ "errors" \in DOMAIN m.payload
              /\ m.payload.errors = accumulated]_vars

\* ---------------------------------------------------------------------
\* Long token lists, for the progress interval to exceed one token
MaxProgressTokens == 41

\* A list of n tokens on one line: div elements opened and closed in turn
\* or, when it leads with a CLOSE token, one stray </div> and then the
\* same.
Alternating(n, first) ==
    [k \in 1..n |->
        [type |-> IF k % 2 = 1 THEN first
                  ELSE IF first = "OPEN" THEN "CLOSE" ELSE "OPEN",
         name |-> "div", line |-> 1, column |-> k]]

ProgressLists ==
    { Alternating(n, first) : n \in 0..MaxProgressTokens, first \in TokenTypes }

InitProgress == InitWith(ProgressLists)

SpecProgress == InitProgress /\ [][Next]_vars

\* The multiples of step below n, in increasing order
MultiplesBelow(step, n) ==
    [j \in 1..((n + step - 1) \div step) |-> (j - 1) * step]

\* C24: with step = max(1, floor(total / 20)), onProgress(processed, total)
\* has been invoked exactly for the multiples of step among the tokens the
\* loop has entered, in increasing order from 0; two consecutive
\* invocations are step tokens apart, at most step tokens are processed
\* after the last one, and none is made once the cap has stopped the loop.
C24_ProgressAtIntervals ==
    LET total == Len(tokens)
        step == IF total >= 20 THEN total \div 20 ELSE 1
        ks == MultiplesBelow(step, i)
    IN  /\ progressCalls = [j \in 1..Len(ks) |-> <<ks[j], total>>]
        /\ \A j \in 1..(Len(progressCalls) - 1) :
               /\ progressCalls[j][1] < progressCalls[j + 1][1]
               /\ progressCalls[j + 1][1] - progressCalls[j][1] <= step
        /\ progressCalls /= <<>> =>
               /\ progressCalls[1][1] = 0
               /\ i - progressCalls[Len(progressCalls)][1] <= step
        /\ (Done /\ i < total) =>
               /\ Len(errors) >= maxErrors
               /\ \A j \in 1..Len(progressCalls) : progressCalls[j][1] < i

\* forty tokens or more, so that the step is two: the loop ran to the end
\* with a callback at every second token
C24_Witness ==
    /\ Done
    /\ Len(tokens) >= 40
    /\ i = Len(tokens)
    /\ Len(progressCalls) >= 20
    /\ progressCalls[2][1] = 2

\* the cap stopped the loop after the first token of a long list
C24_CapWitness ==
    /\ Done /\ Len(tokens) >= 40 /\ i = 1 /\ Len(progressCalls) = 1

\* ---------------------------------------------------------------------
\* The errors a step creates: those appended to the accumulator
NewErrors ==
    IF Len(errors') >= Len(errors) /\ SubSeq(errors', 1, Len(errors)) = errors
    THEN SubSeq(errors', Len(errors) + 1, Len(errors'))
    ELSE errors'

IdsOf(errs) == {errs[k].id : k \in DOMAIN errs}

DistinctIds(errs) ==
    \A j \in DOMAIN errs, k \in DOMAIN errs : j /= k => errs[j].id /= errs[k].id

\* C25: error ids are unique within one engine instance: the counter never
\* decreases, every error a step creates carries an id above the counter
\* value the step found and at most the value it leaves, no two errors of
\* a call share an id, the returned errors keep the ids they were created
\* with, and no error of a later call carries an id returned by the first
\* call.
C25_IdsUnique ==
    /\ [][/\ errorIdCounter' >= errorIdCounter
          /\ DistinctIds(NewErrors)
          /\ \A k \in DOMAIN NewErrors :
                 /\ NewErrors[k].id > errorIdCounter
                 /\ NewErrors[k].id <= errorIdCounter']_vars
    /\ [](/\ DistinctIds(errors)
          /\ DistinctIds(result)
          /\ IdsOf(result) \subseteq IdsOf(errors)
          /\ \A id \in IdsOf(errors) : id <= errorIdCounter)
    /\ []((calls > 1 /\ memo /= <<>>) =>
              IdsOf(memo[1].result) \cap IdsOf(errors) = {})

\* the third call has returned two errors; the first call returned some,
\* and the call between them created one as well
C25_Witness ==
    /\ Done
    /\ calls = 3
    /\ Len(result) >= 2
    /\ memo[1].result /= <<>>
    /\ errorIdCounter > Len(memo[1].result) + Len(errors)

\* ---------------------------------------------------------------------
\* autoFixMissingClose (utils/analytics.ts:68-81)
\* Array.prototype.sort with (a, b) => a.line - b.line: a stable sort
RECURSIVE SortByLine(_)
SortByLine(errs) ==
    IF errs = <<>> THEN <<>>
    ELSE LET e == errs[Len(errs)]
             rest == SortByLine(Pop(errs))
         IN  SelectSeq(rest, LAMBDA x : x.line <= e.line) \o <<e>>
                 \o SelectSeq(rest, LAMBDA x : x.line > e.line)

\* The errors whose tags are closed, in the order their closing tags are
\* written (lines 69-71)
MissingClose(errs) ==
    SortByLine(SelectSeq(errs, LAMBDA e : e.type = "MISSING_CLOSE"))

\* The fixed content, given by its tokens as the content is: the text
\* appended (lines 76-77) is one closing tag per line after the last line
\* of the content, of which parseContent makes one CLOSE token each.
AutoFixMissingClose(toks, errs) ==
    LET missingClose == MissingClose(errs)
        lastLine == IF toks = <<>> THEN 1 ELSE toks[Len(toks)].line
    IN  IF missingClose = <<>> THEN toks
        ELSE toks \o [k \in 1..Len(missingClose) |->
                        [type |-> "CLOSE", name |-> missingClose[k].tag,
                         line |-> lastLine + k, column |-> 1]]

\* The returned errors are all end-of-input MISSING_CLOSE errors.
OnlyUnclosedAtEnd ==
    /\ result /= <<>>
    /\ \A k \in 1..Len(result) :
           result[k].type = "MISSING_CLOSE" /\ result[k].relatedLine = NoLine

\* C26: for a document whose validation errors are all end-of-input
\* MISSING_CLOSE errors, the content autoFixMissingClose produces
\* validates with zero errors.
C26_AutoFixValidates ==
    (Done /\ maxErrors = DefaultMaxErrors /\ OnlyUnclosedAtEnd) =>
        ValidateTokens(AutoFixMissingClose(tokens, result), DefaultMaxErrors,
                       errorIdCounter) = <<>>

\* =====================================================================
\* The editor panel and its debounced validation (EditorPanel,
\* src/unnamed/part_003:272-293).  Time advances in steps of TickMs; a
\* timeout set for DebounceMs is due once that much time has passed, and
\* its callback runs as a step of its own, so that another event handler
\* can run first.
\* ------------------------------------------------------------------ bounds
MaxChanges == 3
TickMs == 250

\* The delay of line 283
DebounceMs == 500

\* ------------------------------------------------------------ input domain
\* Editor contents: the empty text, a blank one, and two with a tag
Texts == {"", " ", "<a>", "<b>"}

\* String.prototype.trim on these texts
Trim(text) == IF text \in {"", " "} THEN "" ELSE text

\* --------------------------------------------------------------- the panel
\* clearTimeout: the timeout of that id, if still pending, is removed
ClearTimeout(pending, id) == {t \in pending : t.id /= id}

\* setTimeout(() => onValidate(text), ms)
SetTimeout(pending, id, text, ms) ==
    pending \cup {[id |-> id, text |-> text, left |-> ms]}

\* onValidate(text), with what the call found (history): the content the
\* editor has and the time since its last change
ValidateCall(text, by, shown) ==
    [text |-> text, by |-> by, content |-> shown, quiet |-> quiet]

\* handleContentChange (lines 273-285): the editor reports an edit
HandleContentChange ==
    /\ changes < MaxChanges
    /\ \E text \in Texts :
         /\ editorContent' = text
         /\ LET cleared == IF validateTimeout /= 0
                           THEN ClearTimeout(timers, validateTimeout)
                           ELSE timers
            IN  IF Trim(text) /= ""
                THEN /\ timers' = SetTimeout(cleared, timerIds + 1, text, DebounceMs)
                     /\ validateTimeout' = timerIds + 1
                     /\ timerIds' = timerIds + 1
                ELSE /\ timers' = cleared
                     /\ UNCHANGED <<validateTimeout, timerIds>>
    /\ quiet' = 0
    /\ changes' = changes + 1
    /\ UNCHANGED <<validateCalls, validatorVars, parserVars, workerVars, lookupVars, hostVars>>

\* handleNewContent (lines 287-293): a dropped file or the example is
\* loaded
HandleNewContent ==
    /\ changes < MaxChanges
    /\ \E text \in Texts :
         /\ editorContent' = text
         /\ IF Trim(text) /= ""
            THEN /\ timers' = IF validateTimeout /= 0
                              THEN ClearTimeout(timers, validateTimeout)
                              ELSE timers
                 /\ validateCalls' = Append(validateCalls, ValidateCall(text, "new", text))
            ELSE UNCHANGED <<timers, validateCalls>>
    /\ quiet' = 0
    /\ changes' = changes + 1
    /\ UNCHANGED <<validateTimeout, timerIds, validatorVars, parserVars, workerVars, lookupVars, hostVars>>

\* The callback of a due timeout (lines 281-283)
TimeoutFires ==
    /\ \E t \in timers :
         /\ t.left = 0
         /\ timers' = timers \ {t}
         /\ validateCalls' = Append(validateCalls, ValidateCall(t.text, "timeout", editorContent))
    /\ UNCHANGED <<editorContent, validateTimeout, timerIds, quiet, changes,
                   validatorVars, parserVars, workerVars, lookupVars, hostVars>>

\* TickMs of time pass with no event.
TimePasses ==
    /\ timers' = {[t EXCEPT !.left = IF @ > TickMs THEN @ - TickMs ELSE 0] : t \in timers}
    /\ quiet' = IF quiet + TickMs >= DebounceMs THEN DebounceMs ELSE quiet + TickMs
    /\ UNCHANGED <<editorContent, validateTimeout, timerIds, validateCalls,
                   changes, validatorVars, parserVars, workerVars, lookupVars, hostVars>>

InitEditor == ValidatorIdle /\ ParserIdle /\ WorkerIdle /\ EditorIdle /\ LookupIdle /\ HostIdle

NextEditor ==
    HandleContentChange \/ HandleNewContent \/ TimeoutFires \/ TimePasses

SpecEditor == InitEditor /\ [][NextEditor]_vars

\* ---------------------------------------------------------------------
\* C27: typing is debounced: a request scheduled by a content change is
\* issued only once 500 ms have passed with no further content change,
\* and then for the content the editor has; every content change cancels
\* the request scheduled before it, so at most one is pending at any
\* time.
C27_Debounced ==
    /\ Cardinality(timers) <= 1
    /\ \A k \in 1..Len(validateCalls) :
           validateCalls[k].by = "timeout" =>
               /\ validateCalls[k].quiet >= DebounceMs
               /\ validateCalls[k].text = validateCalls[k].content

\* ---------------------------------------------------------------------
\* The tokens are a crossed pair: OPEN a, OPEN b, CLOSE a, CLOSE b with
\* two different non-void names, as in <div><p></div></p>.
Crossed ==
    /\ Len(tokens) = 4
    /\ tokens[1].type = "OPEN" /\ tokens[2].type = "OPEN"
    /\ tokens[3].type = "CLOSE" /\ tokens[4].type = "CLOSE"
    /\ tokens[1].name = tokens[3].name
    /\ tokens[2].name = tokens[4].name
    /\ tokens[1].name /= tokens[2].name
    /\ \A k \in 1..4 : ~IsVoid(tokens[k].name)

\* The error is of that type, for that tag, at the position of token k.
ErrorAt(e, type, tag, k) ==
    /\ e.type = type
    /\ e.tag = tag
    /\ e.line = tokens[k].line
    /\ e.column = tokens[k].column

TopmostNamed(name, s) ==
    CHOOSE p \in 1..Len(s) :
        /\ s[p].name = name
        /\ \A q \in (p + 1)..Len(s) : s[q].name /= name

\* The MISSING_CLOSE errors of recovery for the topmost count entries of
\* s, in the order they are popped
RecoveryErrorsFor(k, s, count) ==
    /\ Len(Emitted(k)) = 1 + count
    /\ \A x \in 1..count :
           LET e == Emitted(k)[1 + x]
               popped == s[Len(s) + 1 - x]
           IN  /\ e.type = "MISSING_CLOSE"
               /\ e.tag = popped.name
               /\ e.line = popped.line
               /\ e.column = popped.column
               /\ e.relatedLine = tokens[k].line

\* Token k found its name on the stack, j >= 1 entries below the top, and
\* left the stack as the entries below that one, untouched.
UnwoundTo(k) ==
    LET s == Before(k).stack
        p == TopmostNamed(tokens[k].name, s)
    IN  After(k).stack = SubSeq(s, 1, p - 1)

RecoversAt(k) ==
    MismatchAt(k) /\ OpenDeeper(tokens[k].name, Before(k).stack)

\* C29 as stated: the j entries above the topmost entry named n are
\* popped, each producing a MISSING_CLOSE error at its own opening
\* position with relatedLine = the CLOSE token's line; the entry named n
\* is popped without an error; the entries below it stay as they are.
C29_Original ==
    Done =>
        \A k \in 1..i :
            RecoversAt(k) =>
                LET s == Before(k).stack
                    j == Len(s) - TopmostNamed(tokens[k].name, s)
                IN  /\ UnwoundTo(k)
                    /\ RecoveryErrorsFor(k, s, j)

\* C29 amended: of the j popped entries, those popped while the error
\* count is below maxErrors produce a MISSING_CLOSE error: the first
\* min(j, maxErrors - 1 - errors before the token) of them.
C29_RecoveryConfinedAmended ==
    Done =>
        \A k \in 1..i :
            RecoversAt(k) =>
                LET s == Before(k).stack
                    j == Len(s) - TopmostNamed(tokens[k].name, s)
                IN  /\ UnwoundTo(k)
                    /\ RecoveryErrorsFor(k, s,
                           Min(j, maxErrors - 1 - Before(k).nerr))

\* <div><div><span></div>: the span above the inner div is popped with
\* an error, the inner div without, and the outer div stays
C29_Witness ==
    /\ Done
    /\ \E k \in 1..i :
           /\ RecoversAt(k)
           /\ Len(Before(k).stack) = 3
           /\ Len(After(k).stack) = 1
           /\ Len(Emitted(k)) = 2
           /\ After(k).stack[1] = Before(k).stack[1]

\* ---------------------------------------------------------------------
\* Token k is a non-void CLOSE that found a non-empty stack with no entry
\* of its name.
UnknownCloseAt(k) ==
    MismatchAt(k) /\ ~InStack(tokens[k].name, Before(k).stack)

CountOfType(errs, type) ==
    Cardinality({x \in DOMAIN errs : errs[x].type = type})

\* C30: a mismatching non-void CLOSE token whose name equals no entry of
\* the non-empty stack empties the stack; it emits exactly one MISMATCH,
\* then one MISSING_CLOSE for each popped entry while the cap allows, in
\* the order they are popped, and no MISSING_OPEN.
C30_UnknownCloseEmptiesStack ==
    Done =>
        \A k \in 1..i :
            UnknownCloseAt(k) =>
                LET s == Before(k).stack
                IN  /\ After(k).stack = <<>>
                    /\ Emitted(k)[1].type = "MISMATCH"
                    /\ CountOfType(Emitted(k), "MISMATCH") = 1
                    /\ CountOfType(Emitted(k), "MISSING_OPEN") = 0
                    /\ RecoveryErrorsFor(k, s,
                           Min(Len(s), maxErrors - 1 - Before(k).nerr))

\* two open elements and a CLOSE of a third name: one MISMATCH and two
\* MISSING_CLOSE errors, and the stack is empty
C30_Witness ==
    /\ Done
    /\ \E k \in 1..i :
           /\ UnknownCloseAt(k)
           /\ Len(Before(k).stack) = 2
           /\ Len(Emitted(k)) = 3
           /\ After(k).stack = <<>>

\* ------------------------------------------------------------------- C31
\* The (type, tag, line) class of an error
ClassOf(e) == <<e.type, e.tag, e.line>>

\* The position in errs of the error emitted first in the class of errs[k]
FirstOfClass(errs, k) ==
    CHOOSE j \in 1..k :
        /\ ClassOf(errs[j]) = ClassOf(errs[k])
        /\ \A h \in 1..(j - 1) : ClassOf(errs[h]) /= ClassOf(errs[k])

\* The errors emitted first in their class, in emission order
RECURSIVE FirstSeen(_, _)
FirstSeen(errs, n) ==
    IF n = 0 THEN <<>>
    ELSE IF FirstOfClass(errs, n) = n
         THEN Append(FirstSeen(errs, n - 1), errs[n])
         ELSE FirstSeen(errs, n - 1)

\* C31: deduplication keeps the first-seen error of each (type, tag, line)
\* class: the returned list holds, for every class of the emitted errors,
\* exactly the record emitted first in it, unchanged, and it is the sort by
\* (line, column) of those records taken in emission order.
C31_FirstSeenSurvives ==
    Done =>
        /\ \A k \in 1..Len(errors) :
               \E r \in 1..Len(result) : result[r] = errors[FirstOfClass(errors, k)]
        /\ \A r \in 1..Len(result) :
               \E k \in 1..Len(errors) :
                   result[r] = errors[k] /\ FirstOfClass(errors, k) = k
        /\ Len(result) = Cardinality({ ClassOf(errors[k]) : k \in 1..Len(errors) })
        /\ result = SortErrors(FirstSeen(errors, Len(errors)))

\* two errors of one class, the one emitted first having the larger column:
\* it is the one returned
C31_Witness ==
    /\ Done
    /\ \E j \in 1..Len(errors), k \in 1..Len(errors) :
         /\ j < k
         /\ ClassOf(errors[j]) = ClassOf(errors[k])
         /\ errors[j].column > errors[k].column
         /\ \E r \in 1..Len(result) : result[r] = errors[j]
         /\ \A r \in 1..Len(result) : result[r] /= errors[k]

\* ------------------------------------------------- extractContext (C32)
\* The default of the radius parameter (validator.ts:21); no call passes one
Radius == 40
MaxContextLines == 2

\* The marker appended to a truncated line (line 25): the one character
\* U+2026, spelt here in ASCII
Ellipsis == "..."

\* What String.prototype.trim strips, among the characters of these texts
WhiteSpace == {" ", "\n"}

\* content.split('\n')
RECURSIVE SplitLines(_)
SplitLines(text) ==
    LET breaks == { k \in 1..Len(text) : text[k] = "\n" }
    IN  IF breaks = {} THEN <<text>>
        ELSE LET b == CHOOSE k \in breaks : \A h \in breaks : k <= h
             IN  <<SubSeq(text, 1, b - 1)>> \o SplitLines(SubSeq(text, b + 1, Len(text)))

\* String.prototype.trim
TrimLine(cs) ==
    LET inked == { k \in 1..Len(cs) : cs[k] \notin WhiteSpace }
    IN  IF inked = {} THEN <<>>
        ELSE SubSeq(cs, CHOOSE k \in inked : \A h \in inked : k <= h,
                        CHOOSE k \in inked : \A h \in inked : k >= h)

\* extractContext (lines 21-27)
ExtractContext(text, line) ==
    LET lines == SplitLines(text)
        targetLine == IF line \in 1..Len(lines) THEN lines[line] ELSE <<>>
    IN  IF Len(targetLine) > Radius * 2
        THEN SubSeq(targetLine, 1, Radius * 2) \o <<Ellipsis>>
        ELSE TrimLine(targetLine)

\* ------------------------------------------------------------ input domain
Repeat(c, n) == [k \in 1..n |-> c]

\* A source line: indentation, one tag, text after it
ContextLine(pad, tag, tail) == Repeat(" ", pad) \o tag \o Repeat("x", tail)

ContextTags == {<<"<", "a", ">">>, <<"<", "/", "b", ">">>}

\* Indentations that put the tag at the start of the line, inside the first
\* 2 * Radius characters, across their end, and after them
ContextLines ==
    { ContextLine(pad, tag, tail) :
        pad \in {0, 2, Radius * 2 - 2, Radius * 2},
        tag \in ContextTags,
        tail \in {0, 3} }

RECURSIVE JoinLines(_)
JoinLines(ls) ==
    IF Len(ls) = 1 THEN ls[1]
    ELSE JoinLines(Pop(ls)) \o <<"\n">> \o ls[Len(ls)]

ContextTexts ==
    UNION { { JoinLines(ls) : ls \in [1..n -> ContextLines] } : n \in 1..MaxContextLines }

\* The tags of a text: where each starts, and its characters
TagStarts(text) == { o \in 0..(Len(text) - 1) : CharAt(text, o) = "<" }
TagAt(text, o) == Slice(text, o, IndexOf(text, <<">">>, o))

\* ----------------------------------------------------------------- actions
\* The context of an error reported for the tag at offset o: the error has
\* the line and column the parser gave the tag (parser.ts:57), and its
\* context is extractContext(content, line) (validator.ts:102, 120, 138, 163)
ExtractContextCall ==
    /\ \E o \in TagStarts(content) :
           LET where == OffsetToLineCol(content, o)
           IN  lookup' = [fn |-> "extractContext",
                          line |-> where.line,
                          column |-> where.column,
                          tag |-> TagAt(content, o),
                          context |-> ExtractContext(content, where.line)]
    /\ UNCHANGED <<validatorVars, parserVars, workerVars, editorVars, hostVars>>

InitContext ==
    /\ content \in ContextTexts
    /\ doc = <<>>
    /\ pos = 0
    /\ tkRawText = ""
    /\ ptokens = <<>>
    /\ emittedCloseOffsets = {}
    /\ excludedRanges = <<>>
    /\ rawTextStart = -1
    /\ ppc = "idle"
    /\ ValidatorIdle /\ WorkerIdle /\ EditorIdle /\ LookupIdle /\ HostIdle

NextContext == ExtractContextCall

SpecContext == InitContext /\ [][NextContext]_vars

\* ------------------------------------------------------------------- C32
\* cs occurs in text as a run of consecutive characters
Contains(text, cs) == IndexOf(text, cs, 0) /= NotFound

ContextCalled == lookup /= <<>> /\ lookup.fn = "extractContext"

\* C32: the context of an error has at most 2 * Radius characters and a
\* marker, and contains the tag the error is about: it is the trimmed
\* source line when the line has at most 2 * Radius characters, and
\* otherwise a window of the line that covers the tag's columns, followed by
\* the ellipsis marker.
C32_ContextShowsTag ==
    ContextCalled =>
        LET c == lookup.context
            ln == SplitLines(content)[lookup.line]
            last == lookup.column + Len(lookup.tag) - 1
        IN  /\ Len(c) <= Radius * 2 + 1
            /\ Contains(c, lookup.tag)
            /\ Len(ln) <= Radius * 2 => c = TrimLine(ln)
            /\ Len(ln) > Radius * 2 =>
                   /\ c[Len(c)] = Ellipsis
                   /\ \E from \in 1..lookup.column :
                          /\ last <= from + Len(c) - 2
                          /\ Pop(c) = SubSeq(ln, from, from + Len(c) - 2)

\* ---------------------------- offsetToLineCol and isExcluded (C33, C34)
MaxTextLen == 5
MaxRanges == 3
MaxOffset == 2

\* Texts of ordinary characters and line breaks
LineTexts == UNION { [1..n -> {"a", "\n"}] : n \in 0..MaxTextLen }

\* Ranges in registration order: any two offsets, so also overlapping,
\* nested, duplicate and empty (end < start) ranges
RangeLists ==
    UNION { [1..n -> (0..MaxOffset) \X (0..MaxOffset)] : n \in 0..MaxRanges }

\* parseContent at work on a text, or with the ranges its handlers have
\* registered (parser.ts:66) and the secondary scan yet to start
InitLookup ==
    /\ \/ content \in LineTexts /\ excludedRanges = <<>>
       \/ content = <<>> /\ excludedRanges \in RangeLists
    /\ doc = <<>>
    /\ pos = 0
    /\ tkRawText = ""
    /\ ptokens = <<>>
    /\ emittedCloseOffsets = {}
    /\ rawTextStart = -1
    /\ ppc = "parse"
    /\ ValidatorIdle /\ WorkerIdle /\ EditorIdle /\ LookupIdle /\ HostIdle

\* offsetToLineCol(offset) (lines 49-58)
OffsetToLineColCall ==
    /\ ppc \in {"parse", "scan"}
    /\ \E offset \in 0..Len(content) :
           LET where == OffsetToLineCol(content, offset)
           IN  lookup' = [fn |-> "offsetToLineCol", offset |-> offset,
                          line |-> where.line, column |-> where.column]
    /\ UNCHANGED <<validatorVars, parserVars, workerVars, editorVars, hostVars>>

\* excludedRanges.sort((a, b) => a[0] - b[0]) (line 158), in place
SortExcludedRanges ==
    /\ ppc = "parse"
    /\ ppc' = "scan"
    /\ excludedRanges' = SortRanges(excludedRanges)
    /\ UNCHANGED <<content, doc, pos, tkRawText, ptokens, emittedCloseOffsets,
                   rawTextStart, validatorVars, workerVars, editorVars, lookupVars, hostVars>>

\* isExcluded(offset) (lines 160-166)
IsExcludedCall ==
    /\ ppc = "scan"
    /\ \E offset \in 0..MaxOffset :
           lookup' = [fn |-> "isExcluded", offset |-> offset,
                      excluded |-> IsExcluded(excludedRanges, offset)]
    /\ UNCHANGED <<validatorVars, parserVars, workerVars, editorVars, hostVars>>

NextLookup == OffsetToLineColCall \/ SortExcludedRanges \/ IsExcludedCall

SpecLookup == InitLookup /\ [][NextLookup]_vars

\* ------------------------------------------------------------------- C33
\* The position of offset found by reading the text from its start: a line
\* break moves to column 1 of the next line, any other character to the
\* next column
RECURSIVE ScanTo(_, _, _)
ScanTo(text, offset, k) ==
    IF k = 0 THEN [line |-> 1, column |-> 1]
    ELSE LET before == ScanTo(text, offset, k - 1)
         IN  IF text[k] = "\n"
             THEN [line |-> before.line + 1, column |-> 1]
             ELSE [line |-> before.line, column |-> before.column + 1]

LineColCalled == lookup /= <<>> /\ lookup.fn = "offsetToLineCol"

\* C33: for every text and every offset from 0 to the length of the text,
\* offsetToLineCol returns line = 1 + the number of line breaks before the
\* offset and column = offset - (start of that line) + 1, which is what a
\* linear scan of the text gives.
C33_LineColCorrect ==
    LineColCalled =>
        LET breaks == { k \in 1..lookup.offset : content[k] = "\n" }
            start == IF breaks = {} THEN 0
                     ELSE CHOOSE k \in breaks : \A h \in breaks : k >= h
            scanned == ScanTo(content, lookup.offset, lookup.offset)
        IN  /\ lookup.line = 1 + Cardinality(breaks)
            /\ lookup.column = lookup.offset - start + 1
            /\ lookup.line = scanned.line
            /\ lookup.column = scanned.column

\* the offset of the end of a text that ends with a line break, on the third
\* line or later: the offset is itself a line start
C33_Witness ==
    /\ LineColCalled
    /\ lookup.offset = Len(content)
    /\ lookup.line >= 3
    /\ lookup.column = 1
    /\ \E k \in 1..Len(content) : content[k] /= "\n"

\* ------------------------------------------------------------------- C34
ExcludedCalled == lookup /= <<>> /\ lookup.fn = "isExcluded"

InRange(r, offset) == r[1] <= offset /\ offset <= r[2]

\* C34: once the ranges are sorted by start, isExcluded(offset) is true
\* exactly when some registered range [start, end] has
\* start <= offset <= end, whatever the ranges: overlapping, nested,
\* duplicate or empty.
C34_ExclusionExact ==
    ExcludedCalled =>
        lookup.excluded =
            (\E k \in 1..Len(excludedRanges) : InRange(excludedRanges[k], lookup.offset))

\* the offset is in the last range only, after an empty range and a range
\* that ends before it
C34_Witness ==
    /\ ExcludedCalled
    /\ lookup.excluded
    /\ Len(excludedRanges) = 3
    /\ \A k \in 1..2 : ~InRange(excludedRanges[k], lookup.offset)
    /\ \E k \in 1..2 : excludedRanges[k][2] < excludedRanges[k][1]
    /\ \E k \in 1..2 : /\ excludedRanges[k][1] <= excludedRanges[k][2]
                       /\ excludedRanges[k][2] < lookup.offset

\* -------------------------- the host: useWorker and the store (C35-C38)
\* The number of messages the host posts
MaxHostMessages == 2

\* Mutant of SetValidationError: the flag is left as it is.
SetValidationErrorKeepFlag == UNCHANGED <<isValidating, storeErrors>>

\* startValidation (useAppStore.ts:52-58)
StartValidation == isValidating' = TRUE /\ storeErrors' = 0

\* setErrors (useAppStore.ts:63-67)
SetErrors(errs) == storeErrors' = errs /\ isValidating' = FALSE

\* setValidationError (useAppStore.ts:69)
SetValidationError == isValidating' = FALSE /\ UNCHANGED storeErrors

ValidateMessage == [type |-> "VALIDATE", payload |-> TRUE]
CancelMessage == [type |-> "CANCEL", payload |-> FALSE]

\* The CANCEL messages among sent[from..] that are posted while a handler of
\* the worker runs (history)
CancelsDuring(msgs, from) ==
    IF wpc /= "idle"
    THEN { k \in from..Len(msgs) : msgs[k].type = "CANCEL" }
    ELSE {}

\* validate(text, lang) (part_005:100-108), as called by the editor's
\* debounce, the upload handler and the language bar
Validate ==
    /\ Len(sent) < MaxHostMessages
    /\ StartValidation
    /\ sent' = Append(sent, ValidateMessage)
    /\ UNCHANGED <<delivered, taken, outbox, cancelled, wpc, callbacksLeft,
                   accumulated, expired, sentDuring, validatorVars, parserVars,
                   editorVars, lookupVars>>

\* cancel() (part_005:110-114)
Cancel ==
    /\ Len(sent) < MaxHostMessages
    /\ sent' = Append(sent, CancelMessage)
    /\ sentDuring' = sentDuring \cup CancelsDuring(sent', Len(sent'))
    /\ UNCHANGED <<hostVars, taken, outbox, cancelled, wpc, callbacksLeft,
                   accumulated, expired, validatorVars, parserVars,
                   editorVars, lookupVars>>

\* The Re-validate button (App.tsx:191): cancel(), then validate(content),
\* in one click handler
OnRevalidateClick ==
    /\ Len(sent) + 2 <= MaxHostMessages
    /\ StartValidation
    /\ sent' = sent \o <<CancelMessage, ValidateMessage>>
    /\ sentDuring' = sentDuring \cup CancelsDuring(sent', Len(sent) + 1)
    /\ UNCHANGED <<delivered, taken, outbox, cancelled, wpc, callbacksLeft,
                   accumulated, expired, validatorVars, parserVars,
                   editorVars, lookupVars>>

\* worker.onmessage of the host (part_005:77-89) on the next message the
\* worker has posted; setProgress touches neither the flag nor the errors
HostOnMessage ==
    /\ delivered < Len(outbox)
    /\ delivered' = delivered + 1
    /\ LET m == outbox[delivered + 1]
       IN  IF m.type = "COMPLETE" THEN SetErrors(m.payload.errors)
           ELSE IF m.type = "ERROR" THEN SetValidationError
           ELSE UNCHANGED <<isValidating, storeErrors>>
    /\ UNCHANGED <<workerVars, validatorVars, parserVars, editorVars, lookupVars>>

InitHost == ValidatorIdle /\ ParserIdle /\ WorkerIdle /\ EditorIdle /\ LookupIdle /\ HostIdle

NextHost ==
    Validate \/ Cancel \/ OnRevalidateClick \/ HostOnMessage \/ Tick \/ WorkerStep

SpecHost == InitHost /\ [][NextHost]_vars

\* --------------------------------------------------- host claim vocabulary
\* The worker has handled every message posted to it, and the host every
\* message the worker has posted
Quiescent == taken = Len(sent) /\ wpc = "idle" /\ delivered = Len(outbox)

\* The messages the host has handled
Delivered == SubSeq(outbox, 1, delivered)

ValidateRequests == { r \in 1..Len(sent) : sent[r].type = "VALIDATE" /\ sent[r].payload }

\* ------------------------------------------------------------------- C35
\* C35: the host does not stay in the validating state: whatever validate()
\* and cancel() calls were made, once the worker has handled every queued
\* message and the host every response, store.isValidating is false.
C35_NotValidatingForever == Quiescent => ~isValidating

\* two requests, the first ended by COMPLETE with an error found, the
\* second by ERROR
C35_Witness ==
    /\ Quiescent
    /\ ~isValidating
    /\ Cardinality(ValidateRequests) = 2
    /\ \E j \in 1..Len(outbox) :
           outbox[j].type = "COMPLETE" /\ outbox[j].payload.errors > 0
    /\ outbox[Len(outbox)].type = "ERROR"

\* ------------------------------------------------------------------- C36
\* The terminal message of request r has not been handled by the host
Outstanding(r) ==
    /\ r \in ValidateRequests
    /\ \A j \in 1..delivered : ~(outbox[j].req = r /\ Terminal(outbox[j]))

\* C36: store.isValidating reflects outstanding work: while some VALIDATE
\* request the host has posted has not had its COMPLETE or ERROR message
\* delivered, store.isValidating is true, also when requests overlap.
C36_ValidatingWhileOutstanding ==
    (\E r \in 1..Len(sent) : Outstanding(r)) => isValidating

\* ------------------------------------------------------------------- C37
\* The terminal message the worker has posted for request r
TerminalOf(r) == CHOOSE m \in { outbox[j] : j \in 1..Len(outbox) } : m.req = r /\ Terminal(m)

LastRequest == CHOOSE r \in ValidateRequests : \A q \in ValidateRequests : q <= r

\* C37: results of superseded requests do not survive: once every posted
\* message has been handled and every response delivered, store.errors is
\* the error list of the most recently posted VALIDATE request, or is empty
\* if that request ended with ERROR.
C37_LatestResultOnly ==
    (Quiescent /\ ValidateRequests /= {}) =>
        LET m == TerminalOf(LastRequest)
        IN  storeErrors = IF m.type = "COMPLETE" THEN m.payload.errors ELSE 0

\* ------------------------------------------------------------------- C38
\* A CANCEL message was posted before request r, so that the worker handles
\* it first
AfterCancel(r) == \E q \in 1..(r - 1) : sent[q].type = "CANCEL"

\* The step starts the handling of a VALIDATE request with a payload
StartsValidate ==
    /\ taken' = taken + 1
    /\ sent[taken + 1].type = "VALIDATE"
    /\ sent[taken + 1].payload

\* C38: a CANCEL message does not suppress a later request: when the worker
\* starts on a VALIDATE request the cancellation flag is cleared, whatever
\* it was, it stays clear while the request is handled, and a request that
\* follows a CANCEL message ends with its COMPLETE or ERROR message.
C38_CancelDoesNotSuppress ==
    /\ [][StartsValidate => ~cancelled']_vars
    /\ [](wpc /= "idle" => ~cancelled)
    /\ [](\A r \in 1..Len(sent) :
            (Started(r) /\ AfterCancel(r) /\ Handled(r)) =>
                (PostedFor(r) /= <<>> /\ Terminal(PostedFor(r)[Len(PostedFor(r))])))
    /\ \A r \in 2..MaxMessages :
           []((Started(r) /\ AfterCancel(r)) => <>HasTerminal(r))

\* CANCEL, then VALIDATE, as Re-validate posts them: the request has ended
\* with COMPLETE
C38_Witness ==
    \E r \in 2..Len(sent) :
        /\ sent[r - 1].type = "CANCEL"
        /\ Started(r) /\ Handled(r)
        /\ PostedFor(r)[Len(PostedFor(r))].type = "COMPLETE"

\* ------------------------------------------------------------------- C39
\* The stack entry an OPEN token is pushed as (validator.ts:88)
EntryOf(t) == [name |-> t.name, line |-> t.line, column |-> t.column]

\* The stack before every token processed, at loop exit, and at the return
StackAt(k) == IF k <= Len(trace) THEN trace[k].stack ELSE stack

OnStack(s, e) == \E d \in 1..Len(s) : s[d] = e

\* How many times entry e left the stack
PopsOf(e) ==
    Cardinality({ k \in 1..Len(trace) :
                    OnStack(StackAt(k), e) /\ ~OnStack(StackAt(k + 1), e) })

\* The errors, before deduplication, of the given types that are reported
\* at the position of token t
ErrorsAt(t, types) ==
    { r \in 1..Len(errors) :
        /\ errors[r].type \in types
        /\ errors[r].tag = t.name
        /\ errors[r].line = t.line
        /\ errors[r].column = t.column }

\* Every error is reported at the position of a non-void token of its kind:
\* MISSING_CLOSE at an OPEN token, MISMATCH and MISSING_OPEN at a CLOSE token
ErrorsHaveTokens ==
    \A r \in 1..Len(errors) :
        \E k \in 1..i :
            /\ r \in ErrorsAt(tokens[k], {errors[r].type})
            /\ IF errors[r].type = "MISSING_CLOSE"
               THEN OpenNonVoid(tokens[k])
               ELSE CloseNonVoid(tokens[k])

\* At most one error for each CLOSE token, no more errors than non-void
\* tokens, and no two errors of one class at one position
OneErrorPerToken ==
    /\ \A k \in 1..Len(tokens) :
           CloseNonVoid(tokens[k]) =>
               Cardinality(ErrorsAt(tokens[k], {"MISMATCH", "MISSING_OPEN"})) <= 1
    /\ Len(errors) <= Len(NonVoidTokens(tokens))
    /\ \A j \in 1..Len(errors), k \in 1..Len(errors) :
           (j < k /\ DedupKey(errors[j]) = DedupKey(errors[k])) =>
               errors[j].column /= errors[k].column

\* C39 as stated: every pushed stack entry is popped exactly once and yields
\* at most one MISSING_CLOSE error, every CLOSE token yields at most one
\* MISMATCH or MISSING_OPEN error, the errors are no more than the non-void
\* tokens, and errors of one class are about different tags.
C39_Original ==
    Done =>
        /\ \A k \in 1..i :
               OpenNonVoid(tokens[k]) =>
                   /\ PopsOf(EntryOf(tokens[k])) = 1
                   /\ Cardinality(ErrorsAt(tokens[k], {"MISSING_CLOSE"})) <= 1
        /\ OneErrorPerToken

\* C39 amended: every pushed stack entry is popped at most once, and exactly
\* once unless the error count has reached maxErrors, when it can stay on
\* the stack for good; it yields a MISSING_CLOSE error at most once, and
\* only when popped; every CLOSE token yields at most one MISMATCH or
\* MISSING_OPEN error; every error is reported at a token of its own, so
\* the errors are no more than the non-void tokens, and errors of one class
\* are about different tags.
C39_OneErrorPerTokenAmended ==
    Done =>
        /\ \A k \in 1..i :
               OpenNonVoid(tokens[k]) =>
                   LET pops == PopsOf(EntryOf(tokens[k]))
                   IN  /\ pops <= 1
                       /\ pops = 0 => Len(errors) >= maxErrors
                       /\ Cardinality(ErrorsAt(tokens[k], {"MISSING_CLOSE"})) <= pops
        /\ ErrorsHaveTokens
        /\ OneErrorPerToken

\* the cap reached in a recovery that pops one entry without a report and
\* leaves another on the stack for good
C39_Witness ==
    /\ Done
    /\ maxErrors >= 1
    /\ Len(errors) = maxErrors
    /\ \E j \in 1..i, k \in 1..i :
         /\ OpenNonVoid(tokens[j]) /\ OpenNonVoid(tokens[k])
         /\ PopsOf(EntryOf(tokens[j])) = 0
         /\ PopsOf(EntryOf(tokens[k])) = 1
         /\ ErrorsAt(tokens[k], {"MISSING_CLOSE"}) = {}
         /\ \E c \in 1..i : MismatchAt(c) /\ ErrorsAt(tokens[c], {"MISMATCH"}) /= {}

====
